---- MODULE Spec2Model ----
(***************************************************************************)
(* Session lifecycle of the IoTDB Rust client.                             *)
(*                                                                         *)
(* The repository holds two generations of the Session type:               *)
(*   - src/src/session.rs : Session::new(client) builds a disconnected     *)
(*     value, open()/close() mutate it in place (thrift::Result);          *)
(*   - src/src/lib.rs     : Session::connect(config) is the constructor,   *)
(*     close() mutates it (anyhow::Result).                                *)
(* The variable impl selects which of the two a behaviour is about.        *)
(*                                                                         *)
(* The thrift client is the environment: every RPC reply is drawn from a   *)
(* small set (transport failure, or a reply with a status code, an         *)
(* optional message and the reply's own optional fields).                  *)
(***************************************************************************)
EXTENDS Integers, Sequences, FiniteSets, TLC

(***************************************************************************)
(* Bounds and program constants                                            *)
(***************************************************************************)
SUCCESS_CODE == 200

\* the server hands out session ids and statement ids in 1..MaxId
MaxId == 2

ServerIds == 1..MaxId

\* status codes a reply may carry: the success value and a failure
StatusCodes == {SUCCESS_CODE, 500}

\* diagnostic texts a server may put in TSStatus.message
Messages == {"m1", "m2"}

\* TSProtocolVersion values
Versions == {"V2", "V3"}

\* the two generations of the Session type
Impls == {"session_rs", "lib_rs"}

(***************************************************************************)
(* Option<T>: None is the empty sequence, Some(v) the one-element sequence *)
(***************************************************************************)
None == << >>

Some(v) == << v >>

IsNone(o) == o = << >>

IsSome(o) == o # << >>

\* Option::unwrap, defined only on Some; callers test IsNone first because
\* unwrap on None panics
unwrap(o) == o[1]

\* Option::unwrap_or_else(|| "None".to_string())
unwrap_or_None(o) == IF IsNone(o) THEN "None" ELSE o[1]

(***************************************************************************)
(* Replies of the thrift client                                            *)
(***************************************************************************)
\* TSStatus { code, message: Option<String> }
TSStatus == [code : StatusCodes, message : {None} \cup {Some(m) : m \in Messages}]

\* Outcome of client.open_session: a transport failure, or TSOpenSessionResp
OpenReplies ==
    [err : {FALSE}, status : TSStatus, server_protocol_version : Versions,
     session_id : {None} \cup {Some(i) : i \in ServerIds}]
    \cup
    [err : {TRUE}, status : {[code |-> 0, message |-> None]},
     server_protocol_version : {"V3"}, session_id : {None}]

\* Outcome of client.request_statement_id: a failure, or the i64 id
StmtReplies == [err : {FALSE}, id : ServerIds] \cup [err : {TRUE}, id : {0}]

\* Outcome of an RPC that answers with a bare TSStatus
StatusReplies ==
    [err : {FALSE}, status : TSStatus]
    \cup [err : {TRUE}, status : {[code |-> 0, message |-> None]}]

VARIABLES
    impl,              \* which Session type the behaviour is about
    constructed,       \* a Session value exists
    protocol_version,  \* self.protocol_version / config.protocol_version
    session_id,        \* Session.session_id
    statement_id,      \* Session.statement_id
    is_close,          \* Session.is_close
    crashed,           \* a panic unwound the calling thread
    call,              \* the most recent call: operation, state before,
                       \* result, requests sent with their replies
    prev,              \* the call before that: operation, result and
                       \* number of requests sent
    closed_ok,         \* history: a close() sent its RPC and succeeded
    open_failed,       \* history: the latest open() on this value failed
    srv_ids,           \* history: ids the server returned during the most
                       \* recent successful open
    pc,                \* where DataSet::new stands: "idle", "new", "rows"
                       \* (and "body" where the loop is followed in two
                       \* steps), "done", "shown" or "panic"
    resp,              \* the response DataSet::new was given
    data_types,        \* resp_to_rows: data_types
    value_list,        \* resp_to_rows: value_list, what is left of the buffers
    row_num,           \* resp_to_rows: row_num
    values,            \* resp_to_rows: values, the rows built so far
    record_batch,      \* DataSet.record_batch once built
    panicked,          \* the panic that ended DataSet::new, "" if none
    table,             \* what DataSet::show put in the table
    wire,              \* the call in progress: its replies so far and the
                       \* requests sent and not yet answered
    conversions,       \* the enum conversions made, latest last
    config,            \* the configuration fields: those of the Session of
                       \* session.rs, or the Config of the ConfigBuilder and,
                       \* once connected, of the Session of lib.rs
    supplied,          \* history: the number of setter calls made and the
                       \* configuration entries handed to them, latest value
                       \* per key
    request            \* the request most recently built, in full

\* the variables of the decoder
decvars == << pc, resp, data_types, value_list, row_num, values, record_batch,
              panicked, table >>

vars == << impl, constructed, protocol_version, session_id, statement_id,
           is_close, crashed, call, prev, closed_ok, open_failed, srv_ids,
           pc, resp, data_types, value_list, row_num, values, record_batch,
           panicked, table, wire, conversions, config, supplied, request >>

\* the mutable fields of the Session value
State == [session_id |-> session_id, statement_id |-> statement_id,
          is_close |-> is_close]

\* Session::is_open
is_open == constructed /\ ~is_close

\* Session::is_success
is_success(status) == status.code = SUCCESS_CODE

(***************************************************************************)
(* Requests: what was sent, and what came back                             *)
(***************************************************************************)
\* one RPC round trip: the request's name and session id (None when the
\* request has no such field) and the reply
Rpc(name, sid, reply) == [rpc |-> name, session_id |-> sid, reply |-> reply]

\* result of one call of a Session method: the fields afterwards, how the
\* call ended ("ok", "err", "panic"), the error's kind and text, the round
\* trips made
Ret(s, res, kind, msg, rpcs) ==
    [session |-> s, res |-> res, kind |-> kind, msg |-> msg, rpcs |-> rpcs]

NoCall == [op |-> "none", pre |-> [session_id |-> -1, statement_id |-> -1,
                                   is_close |-> TRUE],
           res |-> "ok", kind |-> "", msg |-> None, rpcs |-> << >>]

\* what is kept of a call once the next one has been made
Summary(c) == [op |-> c.op, res |-> c.res, sent |-> Len(c.rpcs)]

BadVersionMsg == "Protocol version is different"

TransportMsg == "transport failure"

(***************************************************************************)
(* src/src/session.rs                                                      *)
(***************************************************************************)
\* Session::new: disconnected, ids -1, is_close set
new == [session_id |-> -1, statement_id |-> -1, is_close |-> TRUE]

\* Session::open.  s: the fields, pv: self.protocol_version, r: outcome of
\* open_session, st: outcome of request_statement_id (used only if reached)
open(s, pv, r, st) ==
    LET rt1 == Rpc("open_session", None, r) IN
    IF r.err
    THEN Ret(s, "err", "transport", Some(TransportMsg), << rt1 >>)
    ELSE IF is_success(r.status)
    THEN IF pv # r.server_protocol_version
         THEN Ret(s, "err", "protocol_BadVersion", Some(BadVersionMsg), << rt1 >>)
         ELSE IF IsNone(r.session_id)
         THEN \* resp.session_id.unwrap()
              Ret(s, "panic", "", None, << rt1 >>)
         ELSE LET s1  == [s EXCEPT !.session_id = unwrap(r.session_id)]
                  rt2 == Rpc("request_statement_id", Some(s1.session_id), st)
              IN IF st.err
                 THEN \* the ? operator returns with session_id already assigned
                      Ret(s1, "err", "transport", Some(TransportMsg), << rt1, rt2 >>)
                 ELSE Ret([s1 EXCEPT !.statement_id = st.id, !.is_close = FALSE],
                          "ok", "", None, << rt1, rt2 >>)
    ELSE IF IsNone(r.status.message)
         THEN \* status.message.clone().unwrap()
              Ret(s, "panic", "", None, << rt1 >>)
         ELSE Ret(s, "err", "application", r.status.message, << rt1 >>)

\* the Ok(status)/Err(error) match every status-returning method of
\* session.rs ends with, given the round trip rt it made
thrift_status(s, rt) ==
    IF rt.reply.err
    THEN Ret(s, "err", "transport", Some(TransportMsg), << rt >>)
    ELSE IF is_success(rt.reply.status)
    THEN Ret(s, "ok", "", None, << rt >>)
    ELSE IF IsNone(rt.reply.status.message)
         THEN Ret(s, "panic", "", None, << rt >>)
         ELSE Ret(s, "err", "application", rt.reply.status.message, << rt >>)

\* close() without the test of the closed flag
close_always_rpc(s, r) ==
    LET rt == Rpc("close_session", Some(s.session_id), r) IN
    IF r.err
    THEN Ret(s, "err", "transport", Some(TransportMsg), << rt >>)
    ELSE IF is_success(r.status)
    THEN Ret([s EXCEPT !.is_close = TRUE], "ok", "", None, << rt >>)
    ELSE IF IsNone(r.status.message)
         THEN Ret(s, "panic", "", None, << rt >>)
         ELSE Ret(s, "err", "application", r.status.message, << rt >>)

\* Session::close
close(s, r) ==
    IF s.is_close
    THEN Ret(s, "ok", "", None, << >>)
    ELSE LET rt == Rpc("close_session", Some(s.session_id), r) IN
         IF r.err
         THEN Ret(s, "err", "transport", Some(TransportMsg), << rt >>)
         ELSE IF is_success(r.status)
         THEN Ret([s EXCEPT !.is_close = TRUE], "ok", "", None, << rt >>)
         ELSE IF IsNone(r.status.message)
              THEN Ret(s, "panic", "", None, << rt >>)
              ELSE Ret(s, "err", "application", r.status.message, << rt >>)

\* Session::set_storage_group
set_storage_group(s, r) ==
    thrift_status(s, Rpc("set_storage_group", Some(s.session_id), r))

\* Session::query: the reply is returned to the caller undecoded
query(s, r) ==
    thrift_status(s, Rpc("execute_query_statement", Some(s.session_id), r))

\* Session::get_time_zone: a failure is logged and an empty string returned
get_time_zone(s, r) ==
    LET rt == Rpc("get_time_zone", Some(s.session_id), r) IN
    IF r.err
    THEN Ret(s, "ok", "", None, << rt >>)
    ELSE IF r.status.code = 200
    THEN Ret(s, "ok", "", None, << rt >>)
    ELSE IF IsNone(r.status.message)
         THEN Ret(s, "panic", "", None, << rt >>)
         ELSE Ret(s, "ok", "", None, << rt >>)

\* the insert_* methods and cancel_operation hand the client's result to
\* the caller as it is
raw_status(s, rt) ==
    IF rt.reply.err
    THEN Ret(s, "err", "transport", Some(TransportMsg), << rt >>)
    ELSE Ret(s, "ok", "", None, << rt >>)

\* Session::insert_record
insert_record(s, r) ==
    raw_status(s, Rpc("insert_record", Some(s.session_id), r))

\* Session::cancel_operation
cancel_operation(s, r) ==
    raw_status(s, Rpc("cancel_operation", Some(s.session_id), r))

(***************************************************************************)
(* src/src/lib.rs                                                          *)
(***************************************************************************)
\* Session::connect.  tcp: TcpStream::connect succeeded, pv:
\* config.protocol_version, r, st as for open.  s holds no Session value
\* before the call; the fields are those of the value built on success.
connect(s, tcp, pv, r, st) ==
    LET rt1 == Rpc("open_session", None, r) IN
    IF ~tcp
    THEN Ret(s, "err", "io", Some(TransportMsg), << >>)
    ELSE IF r.err
    THEN Ret(s, "err", "thrift", Some(TransportMsg), << rt1 >>)
    ELSE IF r.status.code = SUCCESS_CODE
    THEN IF pv # r.server_protocol_version
         THEN Ret(s, "err", "anyhow_msg", Some(BadVersionMsg), << rt1 >>)
         ELSE IF IsNone(r.session_id)
         THEN Ret(s, "panic", "", None, << rt1 >>)
         ELSE LET rt2 == Rpc("request_statement_id", r.session_id, st) IN
              IF st.err
              THEN Ret(s, "err", "thrift", Some(TransportMsg), << rt1, rt2 >>)
              ELSE Ret([session_id |-> unwrap(r.session_id),
                        statement_id |-> st.id, is_close |-> FALSE],
                       "ok", "", None, << rt1, rt2 >>)
    ELSE Ret(s, "err", "anyhow_msg", Some(unwrap_or_None(r.status.message)), << rt1 >>)

\* the status check of lib.rs, marking the session closed when it fails
anyhow_status_closes(s, rt) ==
    IF rt.reply.err
    THEN Ret([s EXCEPT !.is_close = TRUE], "err", "thrift", Some(TransportMsg), << rt >>)
    ELSE IF is_success(rt.reply.status)
    THEN Ret(s, "ok", "", None, << rt >>)
    ELSE Ret([s EXCEPT !.is_close = TRUE], "err", "anyhow_msg",
             Some(unwrap_or_None(rt.reply.status.message)), << rt >>)

\* the status check every status-returning method of lib.rs ends with
anyhow_status(s, rt) ==
    IF rt.reply.err
    THEN Ret(s, "err", "thrift", Some(TransportMsg), << rt >>)
    ELSE IF is_success(rt.reply.status)
    THEN Ret(s, "ok", "", None, << rt >>)
    ELSE Ret(s, "err", "anyhow_msg",
             Some(unwrap_or_None(rt.reply.status.message)), << rt >>)

\* close() that reports success without setting the closed flag
lib_close_keeps_open(s, r) ==
    IF ~s.is_close
    THEN LET rt == Rpc("close_session", Some(s.session_id), r) IN
         IF r.err
         THEN Ret(s, "err", "thrift", Some(TransportMsg), << rt >>)
         ELSE IF is_success(r.status)
         THEN Ret(s, "ok", "", None, << rt >>)
         ELSE Ret(s, "err", "anyhow_msg",
                  Some(unwrap_or_None(r.status.message)), << rt >>)
    ELSE Ret(s, "ok", "", None, << >>)

\* Session::close (lib.rs)
lib_close(s, r) ==
    IF ~s.is_close
    THEN LET rt == Rpc("close_session", Some(s.session_id), r) IN
         IF r.err
         THEN Ret(s, "err", "thrift", Some(TransportMsg), << rt >>)
         ELSE IF is_success(r.status)
         THEN Ret([s EXCEPT !.is_close = TRUE], "ok", "", None, << rt >>)
         ELSE Ret(s, "err", "anyhow_msg",
                  Some(unwrap_or_None(r.status.message)), << rt >>)
    ELSE Ret(s, "ok", "", None, << >>)

\* Session::set_storage_group (lib.rs)
lib_set_storage_group(s, r) ==
    anyhow_status(s, Rpc("set_storage_group", Some(s.session_id), r))

\* Session::set_time_zone (lib.rs)
lib_set_time_zone(s, r) ==
    anyhow_status(s, Rpc("set_time_zone", Some(s.session_id), r))

\* Session::time_zone (lib.rs): a non-success status yields an empty string
time_zone(s, r) ==
    LET rt == Rpc("get_time_zone", Some(s.session_id), r) IN
    IF r.err
    THEN Ret(s, "err", "thrift", Some(TransportMsg), << rt >>)
    ELSE Ret(s, "ok", "", None, << rt >>)

\* no call is in progress
NoWire == [op |-> "idle", got |-> << >>, inflight |-> << >>]

(***************************************************************************)
(* Endpoint of src/src/lib.rs.  A string is the sequence of its            *)
(* characters.                                                             *)
(***************************************************************************)
\* str.split(sep): the pieces between the separators, empty pieces kept, so
\* a string without separator is one piece and n separators give n + 1
RECURSIVE split_from(_, _, _)
split_from(str, sep, piece) ==
    IF str = << >>
    THEN << piece >>
    ELSE IF Head(str) = sep
         THEN << piece >> \o split_from(Tail(str), sep, << >>)
         ELSE split_from(Tail(str), sep, Append(piece, Head(str)))

split(str, sep) == split_from(str, sep, << >>)

\* Endpoint::new
Endpoint_new(host, port) == [host |-> host, port |-> port]

\* from_str accepting every string of two pieces or more
Endpoint_from_str_lenient(str) ==
    LET host_port == split(str, ":") IN
    IF Len(host_port) < 2
    THEN [ok |-> FALSE, endpoint |-> Endpoint_new(<< >>, << >>)]
    ELSE [ok |-> TRUE, endpoint |-> Endpoint_new(host_port[1], host_port[2])]

\* impl FromStr for Endpoint: Ok(endpoint), or the anyhow error of bail!
Endpoint_from_str(str) ==
    LET host_port == split(str, ":") IN
    IF host_port = << >> \/ Len(host_port) # 2
    THEN [ok |-> FALSE, endpoint |-> Endpoint_new(<< >>, << >>)]
    ELSE [ok |-> TRUE, endpoint |-> Endpoint_new(host_port[1], host_port[2])]

\* impl ToString for Endpoint: format!("{}:{}", host, port)
Endpoint_to_string(e) == e.host \o << ":" >> \o e.port

DefaultEndpointStr == << "1", "2", "7", ".", "0", ".", "0", ".", "1", ":", "6", "6", "6", "7" >>

\* impl Default for Endpoint: "127.0.0.1:6667".parse().unwrap()
Endpoint_default ==
    LET parsed == Endpoint_from_str(DefaultEndpointStr) IN
    IF parsed.ok THEN [panic |-> FALSE, endpoint |-> parsed.endpoint]
    ELSE [panic |-> TRUE, endpoint |-> parsed.endpoint]

\* the strings handed to the parser
EndpointStrings ==
    { << >>, << "h" >>, << ":" >>, << "h", ":" >>, << ":", "p" >>,
      << "h", ":", "p" >>, << "h", ":", "p", ":", "q" >>, << ":", ":" >>,
      << "h", "1", ".", "h", "2", ":", "6", "7" >>, DefaultEndpointStr }

(***************************************************************************)
(* The configuration: the fields of the Session of session.rs set by its   *)
(* chained setters, and Config / ConfigBuilder of lib.rs.  A map is a      *)
(* function from its keys; user and password are names, a time zone is the *)
(* sequence of its characters.                                             *)
(***************************************************************************)
EmptyMap == << >>

\* BTreeMap::insert
insert(map, key, value) ==
    [k \in DOMAIN map \cup {key} |-> IF k = key THEN value ELSE map[k]]

\* BTreeMap::append: the entries of other are moved in, replacing the
\* values of keys already present
append(map, other) ==
    [k \in DOMAIN map \cup DOMAIN other |-> IF k \in DOMAIN other THEN other[k] ELSE map[k]]

\* format!("{}{}", Utc::now().offset(), Local::now().offset()) on a host at
\* UTC+08:00
DefaultZone == << "U", "T", "C", "+", "0", "8", ":", "0", "0" >>

\* char::to_uppercase on the letters in use
upper(ch) ==
    CASE ch = "a" -> "A"
      [] ch = "s" -> "S"
      [] ch = "i" -> "I"
      [] OTHER -> ch

\* str::to_uppercase
to_uppercase(str) == [i \in 1..Len(str) |-> upper(str[i])]

\* the configuration fields Session::new (session.rs) sets
Session_new_config ==
    [user |-> "root", password |-> "root", zone_id |-> DefaultZone,
     fetch_size |-> 1024, config |-> EmptyMap]

\* impl Default for Config (lib.rs), protocol_version apart
Config_default ==
    [endpoint |-> Endpoint_default.endpoint, user |-> "root", password |-> "root",
     timeout |-> 3000, time_zone |-> DefaultZone, fetch_size |-> 1024,
     rpc_compaction |-> FALSE, enable_redirect_query |-> FALSE,
     config_map |-> EmptyMap]

NoRequest == [rpc |-> "none"]

\* nothing was configured and nothing built
Unconfigured ==
    /\ config = IF impl = "session_rs" THEN Session_new_config ELSE Config_default
    /\ supplied = [calls |-> 0, entries |-> EmptyMap]
    /\ request = NoRequest

\* nothing but whole calls of Session methods happens
OnlyCalls ==
    /\ wire = NoWire
    /\ conversions = << >>
    /\ Unconfigured

\* no DataSet is being built
NoDecoding ==
    /\ pc = "idle"
    /\ resp = [data_type_list |-> None, columns |-> None, query_data_set |-> None,
               column_name_index_map |-> None, query_id |-> None]
    /\ data_types = << >>
    /\ value_list = << >>
    /\ row_num = 0
    /\ values = << >>
    /\ record_batch = [columns |-> << >>, values |-> << >>, is_empty |-> TRUE]
    /\ panicked = ""
    /\ table = [titles |-> << >>, rows |-> << >>]

(***************************************************************************)
(* The state machine: one action per public method, the client's replies   *)
(* drawn from the reply sets                                               *)
(***************************************************************************)
Init ==
    /\ impl \in Impls
    /\ constructed = (impl = "session_rs")
    /\ protocol_version \in (IF impl = "session_rs" THEN {"V3"} ELSE Versions)
    /\ session_id = new.session_id
    /\ statement_id = new.statement_id
    /\ is_close = new.is_close
    /\ crashed = FALSE
    /\ call = NoCall
    /\ prev = Summary(NoCall)
    /\ closed_ok = FALSE
    /\ open_failed = FALSE
    /\ srv_ids = [session_id |-> -1, statement_id |-> -1]
    /\ NoDecoding
    /\ OnlyCalls

\* the call named op ended as ret says
Returns(op, ret) ==
    /\ session_id' = ret.session.session_id
    /\ statement_id' = ret.session.statement_id
    /\ is_close' = ret.session.is_close
    /\ crashed' = (ret.res = "panic")
    /\ prev' = Summary(call)
    /\ call' = [op |-> op, pre |-> State, res |-> ret.res, kind |-> ret.kind,
                msg |-> ret.msg, rpcs |-> ret.rpcs]
    /\ UNCHANGED << impl, protocol_version >>
    /\ UNCHANGED decvars
    /\ UNCHANGED << wire, conversions, config, supplied, request >>

\* a method that is neither open/connect nor close
Other(op, ret) ==
    /\ Returns(op, ret)
    /\ UNCHANGED << constructed, closed_ok, open_failed, srv_ids >>

Opened(op, ret, r, st) ==
    /\ Returns(op, ret)
    /\ open_failed' = (ret.res # "ok")
    /\ srv_ids' = IF ret.res = "ok"
                  THEN [session_id |-> unwrap(r.session_id), statement_id |-> st.id]
                  ELSE srv_ids
    /\ UNCHANGED closed_ok

Closed(ret) ==
    /\ Returns("close", ret)
    /\ closed_ok' = (closed_ok \/ (ret.res = "ok" /\ ret.rpcs # << >>))
    /\ UNCHANGED << constructed, open_failed, srv_ids >>

Open ==
    /\ impl = "session_rs" /\ ~crashed
    /\ \E r \in OpenReplies, st \in StmtReplies :
          /\ Opened("open", open(State, protocol_version, r, st), r, st)
          /\ UNCHANGED constructed

Close ==
    /\ impl = "session_rs" /\ ~crashed
    /\ \E r \in StatusReplies : Closed(close(State, r))

SetStorageGroup ==
    /\ impl = "session_rs" /\ ~crashed
    /\ \E r \in StatusReplies : Other("set_storage_group", set_storage_group(State, r))

Query ==
    /\ impl = "session_rs" /\ ~crashed
    /\ \E r \in StatusReplies : Other("query", query(State, r))

GetTimeZone ==
    /\ impl = "session_rs" /\ ~crashed
    /\ \E r \in StatusReplies : Other("get_time_zone", get_time_zone(State, r))

InsertRecord ==
    /\ impl = "session_rs" /\ ~crashed
    /\ \E r \in StatusReplies : Other("insert_record", insert_record(State, r))

CancelOperation ==
    /\ impl = "session_rs" /\ ~crashed
    /\ \E r \in StatusReplies : Other("cancel_operation", cancel_operation(State, r))

\* every connect builds a new value; the model follows the first one built
Connect ==
    /\ impl = "lib_rs" /\ ~crashed /\ ~constructed
    /\ \E tcp \in BOOLEAN, r \in OpenReplies, st \in StmtReplies :
          LET ret == connect(State, tcp, protocol_version, r, st) IN
          /\ Opened("connect", ret, r, st)
          /\ constructed' = (ret.res = "ok")

LibClose ==
    /\ impl = "lib_rs" /\ ~crashed /\ constructed
    /\ \E r \in StatusReplies : Closed(lib_close(State, r))

LibSetStorageGroup ==
    /\ impl = "lib_rs" /\ ~crashed /\ constructed
    /\ \E r \in StatusReplies :
          Other("set_storage_group", lib_set_storage_group(State, r))

LibSetTimeZone ==
    /\ impl = "lib_rs" /\ ~crashed /\ constructed
    /\ \E r \in StatusReplies : Other("set_time_zone", lib_set_time_zone(State, r))

TimeZone ==
    /\ impl = "lib_rs" /\ ~crashed /\ constructed
    /\ \E r \in StatusReplies : Other("get_time_zone", time_zone(State, r))

Next ==
    \/ Open
    \/ Close
    \/ SetStorageGroup
    \/ Query
    \/ GetTimeZone
    \/ InsertRecord
    \/ CancelOperation
    \/ Connect
    \/ LibClose
    \/ LibSetStorageGroup
    \/ LibSetTimeZone
    \/ TimeZone

Spec == Init /\ [][Next]_vars

\* the methods other than open/connect and close
OtherOps == {"set_storage_group", "query", "get_time_zone", "insert_record",
             "cancel_operation", "set_time_zone"}

(***************************************************************************)
(* Vocabulary of the properties                                            *)
(***************************************************************************)
IsOpenCall == call.op \in {"open", "connect"}

\* the reply to the first request of the latest call (the call sent one)
FirstReply == call.rpcs[1].reply

\* the latest call sent a request and the server answered it with a
\* non-success status
FirstStatusFailed ==
    /\ call.rpcs # << >>
    /\ ~FirstReply.err
    /\ FirstReply.status.code # SUCCESS_CODE

\* the latest call sent a request and the transport failed
FirstTransportFailed == call.rpcs # << >> /\ FirstReply.err

\* the latest call left session_id, statement_id and the closed flag alone
Unchanged == State = call.pre

\* the latest call did not mark the session open
NotMarkedOpen == is_open => (~call.pre.is_close /\ call.op # "connect")

(***************************************************************************)
(* Close                                                                   *)
(***************************************************************************)
\* C1: close() on a session whose closed flag is already set returns
\* success, sends no RPC of any kind, and leaves session_id, statement_id
\* and the closed flag unchanged.
C1_CloseOnClosedIsNoOp ==
    (call.op = "close" /\ call.pre.is_close) =>
        (call.res = "ok" /\ call.rpcs = << >> /\ Unchanged)

\* a close() on a session that an earlier close() closed over the wire
C1_Witness ==
    /\ call.op = "close" /\ call.pre.is_close
    /\ closed_ok /\ call.pre.session_id \in ServerIds

\* C2 as stated: any two consecutive close() calls both return success and
\* send at most one close-session RPC between them, whatever the first
\* reply was.
C2_TwoClosesAlwaysSucceed ==
    (call.op = "close" /\ prev.op = "close") =>
        (prev.res = "ok" /\ call.res = "ok" /\ prev.sent + Len(call.rpcs) <= 1)

\* C2 amended: of two consecutive close() calls, if the first returns
\* success then the second returns success too and at most one
\* close-session RPC is sent across the two; if the first returns an error
\* the session is still open and the second sends the RPC again.
C2_TwoClosesAfterSuccess ==
    (call.op = "close" /\ prev.op = "close") =>
        /\ (prev.res = "ok" =>
               (call.res = "ok" /\ prev.sent + Len(call.rpcs) <= 1))
        /\ (prev.res = "err" =>
               (Len(call.rpcs) = 1 /\ call.rpcs[1].rpc = "close_session"))

\* two close() calls in a row, the first of which closed an open session
C2_Witness ==
    /\ call.op = "close" /\ prev.op = "close"
    /\ prev.res = "ok" /\ prev.sent = 1 /\ call.res = "ok"

\* C3: a close() on an open session whose RPC is answered with a
\* non-success status, or whose transport fails, returns an error (with the
\* server's message for a status failure) and leaves the closed flag,
\* session_id and statement_id unchanged.
C3_FailedCloseReturnsError ==
    (call.op = "close" /\ ~call.pre.is_close
        /\ (FirstStatusFailed \/ FirstTransportFailed)) =>
        /\ call.res = "err"
        /\ (FirstStatusFailed /\ IsSome(FirstReply.status.message)
               => call.msg = FirstReply.status.message)
        /\ Unchanged

\* C4: closed is terminal: once a close() has succeeded on a Session value,
\* is_open() is never true of that value again.
C4_ClosedIsTerminal == closed_ok => ~is_open

\* C5: once a session has been closed successfully, every operation other
\* than close() returns an error without sending any request.
C5_ClosedFailsFast ==
    (closed_ok /\ call.pre.is_close /\ call.op \in OtherOps) =>
        (call.res = "err" /\ call.rpcs = << >>)

(***************************************************************************)
(* Open                                                                    *)
(***************************************************************************)
\* an open-session reply with a non-success status
RefusedReply ==
    [err |-> FALSE, status |-> [code |-> 500, message |-> Some("m1")],
     server_protocol_version |-> protocol_version, session_id |-> None]

\* the kind of the error this Session type returns for a non-success
\* status of open-session
RefusedKind ==
    IF impl = "session_rs"
    THEN open(State, protocol_version, RefusedReply, [err |-> TRUE, id |-> 0]).kind
    ELSE connect(State, TRUE, protocol_version, RefusedReply,
                 [err |-> TRUE, id |-> 0]).kind

\* the open-session reply of the latest call has a success status and a
\* protocol version other than the requested one
VersionMismatch ==
    /\ IsOpenCall /\ call.rpcs # << >>
    /\ ~FirstReply.err
    /\ FirstReply.status.code = SUCCESS_CODE
    /\ FirstReply.server_protocol_version # protocol_version

\* C6: on a success status with a differing server protocol version, open
\* fails with an error whose kind differs from that of the error for a
\* non-success status, sends no statement-id request and does not mark the
\* session open.
C6_VersionMismatchIsDistinctError ==
    VersionMismatch =>
        /\ call.res = "err"
        /\ call.kind # RefusedKind
        /\ Len(call.rpcs) = 1
        /\ NotMarkedOpen

\* C7: after a failed open() every operation on that Session fails, and no
\* request ever carries session_id = -1.
C7_NoRequestWithUnsetId ==
    (open_failed /\ call.op \in OtherOps) =>
        /\ call.res # "ok"
        /\ \A i \in 1..Len(call.rpcs) : call.rpcs[i].session_id # Some(-1)

\* C8: when open-session is answered with a non-success status, open
\* returns an error carrying the server's message, the session is left
\* unopened and no statement-id request is sent.
C8_RefusedOpenReturnsError ==
    (IsOpenCall /\ FirstStatusFailed) =>
        /\ call.res = "err"
        /\ (IsSome(FirstReply.status.message)
               => call.msg = FirstReply.status.message)
        /\ NotMarkedOpen
        /\ Len(call.rpcs) = 1

\* C9: a failing open() leaves session_id, statement_id and the closed
\* flag as they were before the call, whichever step failed.
C9_FailedOpenChangesNothing ==
    (IsOpenCall /\ call.res = "err") => Unchanged

\* C10: a successful open sends open-session, records the returned
\* session_id, sends the statement-id request keyed by it and only then
\* marks the session open; so whenever is_open() holds, session_id and
\* statement_id are the ids the server returned during the most recent
\* successful open.
C10_OpenSessionHoldsServerIds ==
    /\ (IsOpenCall /\ call.res = "ok") =>
          /\ Len(call.rpcs) = 2
          /\ call.rpcs[1].rpc = "open_session"
          /\ call.rpcs[2].rpc = "request_statement_id"
          /\ call.rpcs[2].session_id = call.rpcs[1].reply.session_id
          /\ session_id = unwrap(call.rpcs[1].reply.session_id)
          /\ statement_id = call.rpcs[2].reply.id
          /\ is_open
    /\ is_open =>
          /\ session_id = srv_ids.session_id
          /\ statement_id = srv_ids.statement_id

(***************************************************************************)
(* The rest of the operation surface of src/src/session.rs                 *)
(***************************************************************************)
\* Session::delete_storage_group
delete_storage_group(s, r) ==
    thrift_status(s, Rpc("delete_storage_groups", Some(s.session_id), r))

\* Session::delete_storage_groups
delete_storage_groups(s, r) ==
    thrift_status(s, Rpc("delete_storage_groups", Some(s.session_id), r))

\* Session::create_time_series
create_time_series(s, r) ==
    thrift_status(s, Rpc("create_timeseries", Some(s.session_id), r))

\* Session::create_multi_time_series
create_multi_time_series(s, r) ==
    thrift_status(s, Rpc("create_multi_timeseries", Some(s.session_id), r))

\* Session::delete_time_series
delete_time_series(s, r) ==
    thrift_status(s, Rpc("delete_timeseries", Some(s.session_id), r))

\* Session::delete_data
delete_data(s, r) ==
    thrift_status(s, Rpc("delete_data", Some(s.session_id), r))

\* Session::set_time_zone
set_time_zone(s, r) ==
    thrift_status(s, Rpc("set_time_zone", Some(s.session_id), r))

\* Session::insert_string_records
insert_string_records(s, r) ==
    raw_status(s, Rpc("insert_string_records", Some(s.session_id), r))

\* Session::insert_records
insert_records(s, r) ==
    raw_status(s, Rpc("insert_records", Some(s.session_id), r))

\* Session::insert_records_of_one_device
insert_records_of_one_device(s, r) ==
    raw_status(s, Rpc("insert_records_of_one_device", Some(s.session_id), r))

\* Session::insert_tablet
insert_tablet(s, r) ==
    raw_status(s, Rpc("insert_tablet", Some(s.session_id), r))

\* Session::insert_tablets
insert_tablets(s, r) ==
    raw_status(s, Rpc("insert_tablets", Some(s.session_id), r))

\* Session::check_time_series_exist: runs query and drops its result
check_time_series_exist(s, r) ==
    LET q == query(s, r) IN
    IF q.res = "panic" THEN q ELSE Ret(s, "ok", "", None, q.rpcs)

(***************************************************************************)
(* The rest of the operation surface of src/src/lib.rs                     *)
(***************************************************************************)
\* TSQueryDataSet as far as the session looks at it: its value_list, a
\* list of byte buffers
ValueLists == {<< >>, << << 1 >> >>}

\* Outcome of an RPC that answers with TSExecuteStatementResp.  decodable
\* says whether DataSet::new returns on this response or panics.
ExecReplies ==
    [err : {FALSE}, status : TSStatus,
     query_data_set : {None} \cup {Some([value_list |-> v]) : v \in ValueLists},
     decodable : BOOLEAN]
    \cup
    [err : {TRUE}, status : {[code |-> 0, message |-> None]},
     query_data_set : {None}, decodable : {FALSE}]

\* result of a call that may have built a DataSet
RetData(s, res, kind, msg, rpcs, built) ==
    [session |-> s, res |-> res, kind |-> kind, msg |-> msg, rpcs |-> rpcs,
     dataset |-> built]

\* the status check of the methods that return a DataSet: DataSet::new is
\* applied to the response on the success branch only
anyhow_dataset(s, rt) ==
    IF rt.reply.err
    THEN RetData(s, "err", "thrift", Some(TransportMsg), << rt >>, FALSE)
    ELSE IF is_success(rt.reply.status)
    THEN IF rt.reply.decodable
         THEN RetData(s, "ok", "", None, << rt >>, TRUE)
         ELSE RetData(s, "panic", "", None, << rt >>, FALSE)
    ELSE RetData(s, "err", "anyhow_msg",
                 Some(unwrap_or_None(rt.reply.status.message)), << rt >>, FALSE)

\* Session::delete_storage_groups (lib.rs)
lib_delete_storage_groups(s, r) ==
    anyhow_status(s, Rpc("delete_storage_groups", Some(s.session_id), r))

\* Session::create_multi_time_series (lib.rs)
lib_create_multi_time_series(s, r) ==
    anyhow_status(s, Rpc("create_multi_timeseries", Some(s.session_id), r))

\* Session::delete_time_series (lib.rs)
lib_delete_time_series(s, r) ==
    anyhow_status(s, Rpc("delete_timeseries", Some(s.session_id), r))

\* Session::delete_data (lib.rs)
lib_delete_data(s, r) ==
    anyhow_status(s, Rpc("delete_data", Some(s.session_id), r))

\* Session::insert_string_records (lib.rs)
lib_insert_string_records(s, r) ==
    anyhow_status(s, Rpc("insert_string_records", Some(s.session_id), r))

\* Session::insert_record (lib.rs)
lib_insert_record(s, r) ==
    anyhow_status(s, Rpc("insert_record", Some(s.session_id), r))

\* Session::test_insert_record (lib.rs)
test_insert_record(s, r) ==
    anyhow_status(s, Rpc("test_insert_record", Some(s.session_id), r))

\* Session::insert_records (lib.rs)
lib_insert_records(s, r) ==
    anyhow_status(s, Rpc("insert_records", Some(s.session_id), r))

\* Session::test_insert_records (lib.rs)
test_insert_records(s, r) ==
    anyhow_status(s, Rpc("test_insert_records", Some(s.session_id), r))

\* Session::insert_tablet (lib.rs)
lib_insert_tablet(s, r) ==
    anyhow_status(s, Rpc("insert_tablet", Some(s.session_id), r))

\* Session::insert_tablets (lib.rs)
lib_insert_tablets(s, r) ==
    anyhow_status(s, Rpc("insert_tablets", Some(s.session_id), r))

\* Session::exec_batch (lib.rs)
exec_batch(s, r) ==
    anyhow_status(s, Rpc("execute_batch_statement", Some(s.session_id), r))

\* Session::delete_storage_group (lib.rs)
lib_delete_storage_group(s, r) == lib_delete_storage_groups(s, r)

\* Session::check_time_series_exists: the answer, or the transport error
check_time_series_exists(s, r) ==
    LET rt == Rpc("execute_query_statement", Some(s.session_id), r) IN
    IF r.err
    THEN [res |-> "err", exists |-> FALSE, rpcs |-> << rt >>]
    ELSE IF IsNone(r.query_data_set)
         THEN [res |-> "ok", exists |-> FALSE, rpcs |-> << rt >>]
         ELSE [res |-> "ok",
               exists |-> (unwrap(r.query_data_set).value_list = << >>),
               rpcs |-> << rt >>]

\* Session::create_time_series (lib.rs).  p: outcome of the probe, r:
\* outcome of create_timeseries (used only if reached)
lib_create_time_series(s, p, r) ==
    LET probe == check_time_series_exists(s, p) IN
    IF probe.res = "err"
    THEN Ret(s, "err", "thrift", Some(TransportMsg), probe.rpcs)
    ELSE IF probe.exists
    THEN Ret(s, "ok", "", None, probe.rpcs)
    ELSE LET c == anyhow_status(s, Rpc("create_timeseries", Some(s.session_id), r))
         IN Ret(c.session, c.res, c.kind, c.msg, probe.rpcs \o c.rpcs)

\* Session::exec
exec(s, r) ==
    anyhow_dataset(s, Rpc("execute_statement", Some(s.session_id), r))

\* Session::sql
sql(s, r) == exec(s, r)

\* Session::exec_query
exec_query(s, r) ==
    anyhow_dataset(s, Rpc("execute_query_statement", Some(s.session_id), r))

\* Session::exec_update
exec_update(s, r) ==
    anyhow_dataset(s, Rpc("execute_update_statement", Some(s.session_id), r))

\* Session::exec_raw_data_query
exec_raw_data_query(s, r) ==
    anyhow_dataset(s, Rpc("execute_raw_data_query", Some(s.session_id), r))

(***************************************************************************)
(* The whole operation surface as one state machine.  Every public method  *)
(* of both Session types is an action; the record of the latest call also  *)
(* says whether a DataSet was built; the history variables are not used.   *)
(***************************************************************************)
NoCallData ==
    [op |-> "none", pre |-> [session_id |-> -1, statement_id |-> -1,
                             is_close |-> TRUE],
     res |-> "ok", kind |-> "", msg |-> None, rpcs |-> << >>, dataset |-> FALSE]

InitOps ==
    /\ impl \in Impls
    /\ constructed = (impl = "session_rs")
    /\ protocol_version \in (IF impl = "session_rs" THEN {"V3"} ELSE Versions)
    /\ session_id = new.session_id
    /\ statement_id = new.statement_id
    /\ is_close = new.is_close
    /\ crashed = FALSE
    /\ call = NoCallData
    /\ prev = Summary(NoCall)
    /\ closed_ok = FALSE
    /\ open_failed = FALSE
    /\ srv_ids = [session_id |-> -1, statement_id |-> -1]
    /\ NoDecoding
    /\ OnlyCalls

\* the call named op ended as ret says
Invoked(op, ret) ==
    /\ session_id' = ret.session.session_id
    /\ statement_id' = ret.session.statement_id
    /\ is_close' = ret.session.is_close
    /\ crashed' = (ret.res = "panic")
    /\ call' = [op |-> op, pre |-> State, res |-> ret.res, kind |-> ret.kind,
                msg |-> ret.msg, rpcs |-> ret.rpcs,
                dataset |-> IF "dataset" \in DOMAIN ret THEN ret.dataset ELSE FALSE]
    /\ UNCHANGED << impl, protocol_version, prev, closed_ok, open_failed, srv_ids >>
    /\ UNCHANGED decvars
    /\ UNCHANGED conversions

\* a method of the Session of session.rs
OnSession(op, ret) ==
    /\ impl = "session_rs" /\ ~crashed
    /\ Invoked(op, ret)
    /\ UNCHANGED << constructed, wire, config, supplied, request >>

\* a method of the Session of lib.rs; the value exists once connect returned it
OnLib(op, ret) ==
    /\ impl = "lib_rs" /\ ~crashed /\ constructed
    /\ Invoked(op, ret)
    /\ UNCHANGED << constructed, wire, config, supplied, request >>

Srs_open ==
    \E r \in OpenReplies, st \in StmtReplies :
        OnSession("open", open(State, protocol_version, r, st))

Srs_close ==
    \E r \in StatusReplies : OnSession("close", close(State, r))

Srs_set_storage_group ==
    \E r \in StatusReplies : OnSession("set_storage_group", set_storage_group(State, r))

Srs_delete_storage_group ==
    \E r \in StatusReplies : OnSession("delete_storage_group", delete_storage_group(State, r))

Srs_delete_storage_groups ==
    \E r \in StatusReplies : OnSession("delete_storage_groups", delete_storage_groups(State, r))

Srs_create_time_series ==
    \E r \in StatusReplies : OnSession("create_time_series", create_time_series(State, r))

Srs_create_multi_time_series ==
    \E r \in StatusReplies : OnSession("create_multi_time_series", create_multi_time_series(State, r))

Srs_delete_time_series ==
    \E r \in StatusReplies : OnSession("delete_time_series", delete_time_series(State, r))

Srs_check_time_series_exist ==
    \E r \in StatusReplies : OnSession("check_time_series_exist", check_time_series_exist(State, r))

Srs_delete_data ==
    \E r \in StatusReplies : OnSession("delete_data", delete_data(State, r))

Srs_insert_string_records ==
    \E r \in StatusReplies : OnSession("insert_string_records", insert_string_records(State, r))

Srs_insert_record ==
    \E r \in StatusReplies : OnSession("insert_record", insert_record(State, r))

Srs_insert_records ==
    \E r \in StatusReplies : OnSession("insert_records", insert_records(State, r))

Srs_insert_records_of_one_device ==
    \E r \in StatusReplies : OnSession("insert_records_of_one_device", insert_records_of_one_device(State, r))

Srs_insert_tablet ==
    \E r \in StatusReplies : OnSession("insert_tablet", insert_tablet(State, r))

Srs_insert_tablets ==
    \E r \in StatusReplies : OnSession("insert_tablets", insert_tablets(State, r))

Srs_set_time_zone ==
    \E r \in StatusReplies : OnSession("set_time_zone", set_time_zone(State, r))

Srs_query ==
    \E r \in StatusReplies : OnSession("query", query(State, r))

Srs_get_time_zone ==
    \E r \in StatusReplies : OnSession("get_time_zone", get_time_zone(State, r))

Srs_cancel_operation ==
    \E r \in StatusReplies : OnSession("cancel_operation", cancel_operation(State, r))

\* every connect builds a new value; the model follows the first one built
Lib_connect ==
    /\ impl = "lib_rs" /\ ~crashed /\ ~constructed
    /\ \E tcp \in BOOLEAN, r \in OpenReplies, st \in StmtReplies :
          LET ret == connect(State, tcp, protocol_version, r, st) IN
          /\ Invoked("connect", ret)
          /\ constructed' = (ret.res = "ok")
          /\ UNCHANGED << wire, config, supplied, request >>

Lib_close ==
    \E r \in StatusReplies : OnLib("close", lib_close(State, r))

Lib_set_storage_group ==
    \E r \in StatusReplies : OnLib("set_storage_group", lib_set_storage_group(State, r))

Lib_delete_storage_group ==
    \E r \in StatusReplies : OnLib("delete_storage_group", lib_delete_storage_group(State, r))

Lib_delete_storage_groups ==
    \E r \in StatusReplies : OnLib("delete_storage_groups", lib_delete_storage_groups(State, r))

Lib_create_multi_time_series ==
    \E r \in StatusReplies : OnLib("create_multi_time_series", lib_create_multi_time_series(State, r))

Lib_delete_time_series ==
    \E r \in StatusReplies : OnLib("delete_time_series", lib_delete_time_series(State, r))

Lib_delete_data ==
    \E r \in StatusReplies : OnLib("delete_data", lib_delete_data(State, r))

Lib_insert_string_records ==
    \E r \in StatusReplies : OnLib("insert_string_records", lib_insert_string_records(State, r))

Lib_insert_record ==
    \E r \in StatusReplies : OnLib("insert_record", lib_insert_record(State, r))

Lib_test_insert_record ==
    \E r \in StatusReplies : OnLib("test_insert_record", test_insert_record(State, r))

Lib_insert_records ==
    \E r \in StatusReplies : OnLib("insert_records", lib_insert_records(State, r))

Lib_test_insert_records ==
    \E r \in StatusReplies : OnLib("test_insert_records", test_insert_records(State, r))

Lib_insert_tablet ==
    \E r \in StatusReplies : OnLib("insert_tablet", lib_insert_tablet(State, r))

Lib_insert_tablets ==
    \E r \in StatusReplies : OnLib("insert_tablets", lib_insert_tablets(State, r))

Lib_exec_batch ==
    \E r \in StatusReplies : OnLib("exec_batch", exec_batch(State, r))

Lib_set_time_zone ==
    \E r \in StatusReplies : OnLib("set_time_zone", lib_set_time_zone(State, r))

Lib_time_zone ==
    \E r \in StatusReplies : OnLib("time_zone", time_zone(State, r))

Lib_create_time_series ==
    \E p \in ExecReplies, r \in StatusReplies :
        OnLib("create_time_series", lib_create_time_series(State, p, r))

Lib_sql ==
    \E r \in ExecReplies : OnLib("sql", sql(State, r))

Lib_exec_query ==
    \E r \in ExecReplies : OnLib("exec_query", exec_query(State, r))

Lib_exec_update ==
    \E r \in ExecReplies : OnLib("exec_update", exec_update(State, r))

Lib_exec_raw_data_query ==
    \E r \in ExecReplies : OnLib("exec_raw_data_query", exec_raw_data_query(State, r))

\* Session::check_time_series_exists (lib.rs) called by the user: the record
\* of the call keeps the answer in the field exists
Lib_check_time_series_exists ==
    /\ impl = "lib_rs" /\ ~crashed /\ constructed
    /\ \E r \in ExecReplies :
          LET probe == check_time_series_exists(State, r) IN
          /\ call' = [op |-> "check_time_series_exists", pre |-> State,
                      res |-> probe.res,
                      kind |-> IF probe.res = "err" THEN "thrift" ELSE "",
                      msg |-> IF probe.res = "err" THEN Some(TransportMsg) ELSE None,
                      rpcs |-> probe.rpcs, dataset |-> FALSE,
                      exists |-> probe.exists]
          /\ UNCHANGED << impl, constructed, protocol_version, session_id,
                          statement_id, is_close, crashed, prev, closed_ok,
                          open_failed, srv_ids, wire, conversions, config, supplied, request >>
          /\ UNCHANGED decvars

NextOps ==
    \/ Srs_open
    \/ Srs_close
    \/ Srs_set_storage_group
    \/ Srs_delete_storage_group
    \/ Srs_delete_storage_groups
    \/ Srs_create_time_series
    \/ Srs_create_multi_time_series
    \/ Srs_delete_time_series
    \/ Srs_check_time_series_exist
    \/ Srs_delete_data
    \/ Srs_insert_string_records
    \/ Srs_insert_record
    \/ Srs_insert_records
    \/ Srs_insert_records_of_one_device
    \/ Srs_insert_tablet
    \/ Srs_insert_tablets
    \/ Srs_set_time_zone
    \/ Srs_query
    \/ Srs_get_time_zone
    \/ Srs_cancel_operation
    \/ Lib_connect
    \/ Lib_close
    \/ Lib_set_storage_group
    \/ Lib_delete_storage_group
    \/ Lib_delete_storage_groups
    \/ Lib_create_multi_time_series
    \/ Lib_delete_time_series
    \/ Lib_delete_data
    \/ Lib_insert_string_records
    \/ Lib_insert_record
    \/ Lib_test_insert_record
    \/ Lib_insert_records
    \/ Lib_test_insert_records
    \/ Lib_insert_tablet
    \/ Lib_insert_tablets
    \/ Lib_exec_batch
    \/ Lib_set_time_zone
    \/ Lib_time_zone
    \/ Lib_check_time_series_exists
    \/ Lib_create_time_series
    \/ Lib_sql
    \/ Lib_exec_query
    \/ Lib_exec_update
    \/ Lib_exec_raw_data_query

SpecOps == InitOps /\ [][NextOps]_vars

(***************************************************************************)
(* Vocabulary of the properties of the operation surface                   *)
(***************************************************************************)
LifecycleOps == {"open", "connect", "close"}

\* the round trip rt was answered, and with a status other than success
Refused(rt) ==
    /\ rt.rpc # "request_statement_id"
    /\ ~rt.reply.err
    /\ rt.reply.status.code # SUCCESS_CODE

\* the round trip rt failed: transport error or non-success status
Failed(rt) == rt.reply.err \/ Refused(rt)

\* the last round trip of the latest call (the call made one)
LastRpc == call.rpcs[Len(call.rpcs)]

\* the operations that hand a query-shaped response to the caller
QueryShapedOps == {"sql", "exec_query", "exec_update", "exec_raw_data_query",
                   "query"}

\* the probe's response lists the series
ProbeFound(rt) ==
    /\ ~rt.reply.err
    /\ IsSome(rt.reply.query_data_set)
    /\ unwrap(rt.reply.query_data_set).value_list # << >>

(***************************************************************************)
(* Properties of the operation surface (SpecOps)                           *)
(***************************************************************************)
\* C11: an operation that performs an RPC returns a success value only when
\* the status code it received is 200; a status other than 200 makes it
\* return something other than a success value.
C11_SuccessOnlyOnCode200 ==
    (call.op \notin (LifecycleOps \cup {"none", "check_time_series_exist"})
        /\ ~call.pre.is_close /\ call.rpcs # << >> /\ Refused(LastRpc))
    => call.res # "ok"

\* C12: open, close and set_storage_group answered with a non-success status
\* return an error whose text is the status message, or the placeholder
\* "None" when the server sent no message; they do not crash.
C12_AbsentMessageGivesPlaceholder ==
    (call.op \in (LifecycleOps \cup {"set_storage_group"}) /\ call.rpcs # << >>
        /\ Refused(LastRpc))
    => /\ call.res = "err"
       /\ call.msg = Some(unwrap_or_None(LastRpc.reply.status.message))

\* C13: an operation other than open/connect and close leaves session_id,
\* statement_id and the closed flag as they were, whether it succeeds, fails
\* or panics; so a failed operation on an open session leaves it open.
C13_OnlyLifecycleChangesFields ==
    /\ (call.op \notin (LifecycleOps \cup {"none"})) => State = call.pre
    /\ (call.op # "none" /\ call.res # "ok" /\ ~call.pre.is_close) => ~is_close

\* a data operation failed on an open session
C13_Witness ==
    /\ call.op \in {"set_storage_group", "insert_record", "delete_data"}
    /\ call.res = "err"
    /\ call.rpcs # << >> /\ Failed(LastRpc)
    /\ is_open /\ ~call.pre.is_close

\* C14: create_time_series sends the existence probe on the query path
\* first; when the probe lists the series it returns success with no
\* create_timeseries request; when the probe does not list it, it sends
\* exactly one create_timeseries request and returns by the status contract.
C14_CreateProbesFirst ==
    (call.op = "create_time_series" /\ ~call.pre.is_close)
    => /\ call.rpcs # << >>
       /\ call.rpcs[1].rpc = "execute_query_statement"
       /\ ProbeFound(call.rpcs[1])
            => (call.res = "ok" /\ Len(call.rpcs) = 1)
       /\ (~call.rpcs[1].reply.err /\ ~ProbeFound(call.rpcs[1]))
            => /\ Len(call.rpcs) = 2
               /\ call.rpcs[2].rpc = "create_timeseries"
               /\ (call.res = "ok") <=> (~Failed(call.rpcs[2]))

\* C15: a query-shaped operation answered with a non-success status returns
\* an error with the status message and builds no DataSet; a DataSet is
\* built only from a response whose status is success.
C15_NoDataSetOnFailure ==
    (call.op \in QueryShapedOps /\ call.rpcs # << >>)
    => /\ Refused(LastRpc)
            => /\ call.res = "err"
               /\ call.msg = Some(unwrap_or_None(LastRpc.reply.status.message))
               /\ ~call.dataset
       /\ call.dataset => (~LastRpc.reply.err /\ is_success(LastRpc.reply.status))

\* C16: within one call no request is sent after one that failed (transport
\* error or non-success status), and no request is sent twice.
C16_NothingSentAfterFailure ==
    /\ \A i \in 1..(Len(call.rpcs) - 1) : ~Failed(call.rpcs[i])
    /\ \A i, j \in 1..Len(call.rpcs) :
          (call.rpcs[i].rpc = call.rpcs[j].rpc) => i = j

\* C31: check_time_series_exists answers false when the probe's response
\* has no query data set and when its data set has an empty value list, and
\* answers true only when the value list is non-empty.
C31_ExistsIffValueListNonEmpty ==
    (call.op = "check_time_series_exists" /\ call.res = "ok")
    => (call.exists <=> ProbeFound(call.rpcs[1]))

\* the latest call sent open_session and the server answered with success
\* and a session id
ServerOpened ==
    /\ call.op \in {"open", "connect"}
    /\ call.rpcs # << >>
    /\ call.rpcs[1].rpc = "open_session"
    /\ ~call.rpcs[1].reply.err
    /\ call.rpcs[1].reply.status.code = SUCCESS_CODE
    /\ IsSome(call.rpcs[1].reply.session_id)

\* C35: a Session holds at most one server-side session that it opened and
\* has not closed: open_session is sent only while the Session is marked
\* closed, and when the server answers it with success the call either
\* leaves the Session marked open with the session id of the answer or
\* sends close_session for that id.
C35_AtMostOneServerSession ==
    /\ (call.op \in {"open", "connect"} /\ call.rpcs # << >>) => call.pre.is_close
    /\ ServerOpened =>
          \/ /\ ~is_close
             /\ session_id = unwrap(call.rpcs[1].reply.session_id)
          \/ \E i \in 1..Len(call.rpcs) :
                /\ call.rpcs[i].rpc = "close_session"
                /\ call.rpcs[i].session_id = call.rpcs[1].reply.session_id

(***************************************************************************)
(* src/src/dataset.rs: the row decoder.  A byte is a number in 0..255, a   *)
(* buffer a sequence of bytes.                                             *)
(***************************************************************************)
\* the flag of row 0 in a column's bitmap byte
FLAG == 128

\* the rows decoded in one behaviour are capped here; the loop itself has
\* no such cap
MaxRows == 9

\* enum DataType
DataTypes == {"BOOLEAN", "INT32", "INT64", "FLOAT", "DOUBLE", "TEXT"}

\* DataType::from(&String): the variant, or "panic" for any other tag
DataType_from(value) == IF value \in DataTypes THEN value ELSE "panic"

RECURSIVE unsigned(_)
\* the big-endian unsigned number the bytes spell
unsigned(bytes) ==
    IF bytes = << >> THEN 0
    ELSE unsigned(SubSeq(bytes, 1, Len(bytes) - 1)) * 256 + bytes[Len(bytes)]

\* the bytes with every bit flipped
flipped(bytes) == [i \in 1..Len(bytes) |-> 255 - bytes[i]]

\* read_i32::<BigEndian> / read_i64::<BigEndian>: two's complement
read_signed(bytes) ==
    IF bytes[1] >= 128 THEN (0 - unsigned(flipped(bytes))) - 1 ELSE unsigned(bytes)

\* a >> n and a & b on the i32 values the decoder uses
shr(a, n) == a \div (2 ^ n)

RECURSIVE bitand(_, _)
bitand(a, b) ==
    IF a = 0 \/ b = 0 THEN 0
    ELSE 2 * bitand(a \div 2, b \div 2) + (IF a % 2 = 1 /\ b % 2 = 1 THEN 1 ELSE 0)

\* a drain that starts one byte late (reading a zero past the end)
drained_late(buf, n) == SubSeq(Append(buf, 0), 2, n + 1)

\* Vec::drain(..n) on a buffer: what is taken and what is left
drained(buf, n) == SubSeq(buf, 1, n)

\* a drain that leaves the last byte taken in the buffer
rest_keeps_one(buf, n) == SubSeq(buf, n, Len(buf))

rest(buf, n) == SubSeq(buf, n + 1, Len(buf))

\* a Field::new that starts the bool slot at false instead of leaving it empty
Field_new_defaulted(data_type) ==
    [data_type |-> data_type, bool_value |-> Some(FALSE), int_value |-> None,
     long_value |-> None, float_value |-> None, double_value |-> None,
     binary_value |-> None]

\* Field::new: the declared type and six empty payload slots
Field_new(data_type) ==
    [data_type |-> data_type, bool_value |-> None, int_value |-> None,
     long_value |-> None, float_value |-> None, double_value |-> None,
     binary_value |-> None]

\* Field::new of src/src/iotdb.rs: the slot of the declared type holds the
\* type, the other five are empty
iotdb_Field_new(data_type) ==
    [data_type |-> data_type,
     bool_value |-> IF data_type = "BOOLEAN" THEN Some("BOOLEAN") ELSE None,
     int_value |-> IF data_type = "INT32" THEN Some("INT32") ELSE None,
     long_value |-> IF data_type = "INT64" THEN Some("INT64") ELSE None,
     float_value |-> IF data_type = "FLOAT" THEN Some("FLOAT") ELSE None,
     double_value |-> IF data_type = "DOUBLE" THEN Some("DOUBLE") ELSE None,
     binary_value |-> IF data_type = "TEXT" THEN Some("TEXT") ELSE None]

\* ValueRow::new
ValueRow_new == [timestamp |-> 0, fields |-> << >>]

\* RecordBatch::default
RecordBatch_default == [columns |-> << >>, values |-> << >>, is_empty |-> TRUE]

\* RecordBatch::new
RecordBatch_new(columns, rows) ==
    [columns |-> columns, values |-> rows, is_empty |-> FALSE]

\* outcome of decoding one cell: the field and what is left of the buffer,
\* or the panic that ended it
Cell(field, buf) == [panic |-> "", field |-> field, buf |-> buf]

CellPanic(why) == [panic |-> why, field |-> Field_new("BOOLEAN"), buf |-> << >>]

\* the match on data_type for a cell that is not null.  A float is kept as
\* the 32 or 64 bits read.
decode_value(data_type, buf) ==
    LET field == Field_new(data_type) IN
    CASE data_type = "BOOLEAN" ->
            IF Len(buf) < 1 THEN CellPanic("value_index")
            ELSE Cell([field EXCEPT !.bool_value = Some(buf[1] = 1)], rest(buf, 1))
      [] data_type = "INT32" ->
            IF Len(buf) < 4 THEN CellPanic("value_drain")
            ELSE Cell([field EXCEPT !.int_value = Some(read_signed(drained(buf, 4)))],
                      rest(buf, 4))
      [] data_type = "INT64" ->
            IF Len(buf) < 8 THEN CellPanic("value_drain")
            ELSE Cell([field EXCEPT !.long_value = Some(read_signed(drained(buf, 8)))],
                      rest(buf, 8))
      [] data_type = "FLOAT" ->
            IF Len(buf) < 4 THEN CellPanic("value_drain")
            ELSE Cell([field EXCEPT !.float_value =
                          Some([bits |-> read_signed(drained(buf, 4))])],
                      rest(buf, 4))
      [] data_type = "DOUBLE" ->
            IF Len(buf) < 8 THEN CellPanic("value_drain")
            ELSE Cell([field EXCEPT !.double_value =
                          Some([bits |-> read_signed(drained(buf, 8))])],
                      rest(buf, 8))
      [] data_type = "TEXT" ->
            IF Len(buf) < 4 THEN CellPanic("value_drain")
            ELSE LET length == read_signed(drained(buf, 4))
                     left   == rest(buf, 4)
                 IN \* a negative length becomes a huge usize
                    IF length < 0 \/ length > Len(left)
                    THEN CellPanic("text_drain")
                    ELSE Cell([field EXCEPT !.binary_value = Some(drained(left, length))],
                              rest(left, length))

\* the lookup left out: every column reads the buffer at its own position
remapped_ignored(column_name_index_map, name, c) == c - 1

\* the buffer index of column c (counted from 1) named name: the entry of
\* column_name_index_map, or the column's own position when the map or the
\* entry is missing.  The result counts from 0 as in the source.
remapped(column_name_index_map, name, c) ==
    IF IsNone(column_name_index_map) THEN c - 1
    ELSE IF name \in DOMAIN unwrap(column_name_index_map)
         THEN unwrap(column_name_index_map)[name]
         ELSE c - 1

\* is_null with the flag shifted by the row number itself
is_null_unwrapped(bitmap, row) == bitand(shr(FLAG, row), bitand(bitmap, 255)) = 0

\* is_null of the cell of row row_num under the column's bitmap byte
is_null(bitmap, row) == bitand(shr(FLAG, row % 8), bitand(bitmap, 255)) = 0

\* outcome of the columns c.. of one row: the fields appended and the value
\* buffers afterwards, or the panic that ended it
RECURSIVE decode_fields(_, _, _, _, _, _)
decode_fields(r, types, vl, row, fields, c) ==
    LET columns == unwrap(r.columns)
        qds     == unwrap(r.query_data_set)
    IN
    IF c > Len(columns)
    THEN [panic |-> "", fields |-> fields, value_list |-> vl]
    ELSE IF c > Len(types)
    THEN [panic |-> "data_types_index", fields |-> fields, value_list |-> vl]
    ELSE LET col_index == remapped(r.column_name_index_map, columns[c], c) IN
         IF col_index < 0 \/ col_index >= Len(qds.bitmap_list)
         THEN [panic |-> "bitmap_index", fields |-> fields, value_list |-> vl]
         ELSE IF qds.bitmap_list[col_index + 1] = << >>
         THEN [panic |-> "bitmap_index", fields |-> fields, value_list |-> vl]
         ELSE IF is_null(qds.bitmap_list[col_index + 1][1], row)
         THEN decode_fields(r, types, vl, row, Append(fields, Field_new(types[c])), c + 1)
         ELSE IF col_index >= Len(vl)
         THEN [panic |-> "value_index", fields |-> fields, value_list |-> vl]
         ELSE LET cell == decode_value(types[c], vl[col_index + 1]) IN
              IF cell.panic # ""
              THEN [panic |-> cell.panic, fields |-> fields, value_list |-> vl]
              ELSE decode_fields(r, types, [vl EXCEPT ![col_index + 1] = cell.buf],
                                 row, Append(fields, cell.field), c + 1)

\* the loop's test counting the buffers instead of their bytes
buffer_count(vl) == Len(vl)

\* sum_len of the loop's test
RECURSIVE sum_len(_)
sum_len(vl) == IF vl = << >> THEN 0 ELSE Len(Head(vl)) + sum_len(Tail(vl))

\* one pass of the loop body of resp_to_rows: the row built and the value
\* buffers afterwards, or the panic that ended it.  The timestamp is read
\* from a fresh copy of query_data_set.time.
decode_row(r, types, vl, row) ==
    LET time == unwrap(r.query_data_set).time IN
    IF time # << >> /\ Len(time) < 8
    THEN [panic |-> "time_drain", value_row |-> ValueRow_new, value_list |-> vl]
    ELSE LET stamped == IF time # << >>
                        THEN [ValueRow_new EXCEPT !.timestamp = read_signed(drained(time, 8))]
                        ELSE ValueRow_new
             cols == decode_fields(r, types, vl, row, << >>, 1)
         IN [panic |-> cols.panic,
             value_row |-> [stamped EXCEPT !.fields = cols.fields],
             value_list |-> cols.value_list]

\* Table::new
Table_new == [titles |-> << >>, rows |-> << >>]

\* the cell show makes of a payload slot: "null", or the value
cell_of(slot) == IF IsNone(slot) THEN << "null" >> ELSE << "value", unwrap(slot) >>

\* String::from_utf8 accepts the bytes; of the payloads decoded here only
\* single-byte characters occur, and a byte above 127 is not one
from_utf8_ok(bytes) == \A i \in 1..Len(bytes) : bytes[i] < 128

\* the payload slot show reads for a field
shown_slot(field) ==
    CASE field.data_type = "BOOLEAN" -> field.bool_value
      [] field.data_type = "INT32" -> field.int_value
      [] field.data_type = "INT64" -> field.long_value
      [] field.data_type = "FLOAT" -> field.float_value
      [] field.data_type = "DOUBLE" -> field.double_value
      [] field.data_type = "TEXT" -> field.binary_value

\* DataSet::show: the titles and rows added to the table, or the panic of
\* from_utf8(..).unwrap()
show(batch, ignore_time_stamp) ==
    IF batch.is_empty
    THEN [panic |-> FALSE, table |-> Table_new]
    ELSE LET ignore == IF IsNone(ignore_time_stamp) THEN FALSE
                       ELSE unwrap(ignore_time_stamp)
             cells(row) ==
                 (IF ignore THEN << >> ELSE << << "time", row.timestamp >> >>)
                 \o [c \in 1..Len(row.fields) |-> cell_of(shown_slot(row.fields[c]))]
         IN [panic |-> \E r \in 1..Len(batch.values) :
                          \E c \in 1..Len(batch.values[r].fields) :
                             LET f == batch.values[r].fields[c] IN
                             /\ f.data_type = "TEXT"
                             /\ IsSome(f.binary_value)
                             /\ ~from_utf8_ok(unwrap(f.binary_value)),
             table |->
                [titles |-> (IF ignore THEN << >> ELSE << "Time" >>) \o batch.columns,
                 rows |-> [r \in 1..Len(batch.values) |-> cells(batch.values[r])]]]

(***************************************************************************)
(* Responses handed to DataSet::new                                        *)
(***************************************************************************)
\* data-type tags a server may send: the six known ones and one that is not
Tags == DataTypes \cup {"VECTOR"}

\* a column's bitmap buffer: rows 0, 2, 3 present; every row present; none
Bitmaps == {<< 176 >>, << 255 >>, << 0 >>}

\* value buffers: empty, one byte, an INT32 5 (or a TEXT length with no
\* payload), the TEXT "h", INT32 -1 (or a negative TEXT length), INT64 258,
\* nine BOOLEAN bytes
Buffers ==
    {<< >>, << 1 >>, << 0, 0, 0, 5 >>, << 0, 0, 0, 1, 104 >>,
     << 255, 255, 255, 255 >>, << 0, 0, 0, 0, 0, 0, 1, 2 >>,
     << 0, 0, 0, 0, 0, 0, 0, 1, 1 >>}

\* timestamp buffers: none, one timestamp, two timestamps, seven bytes
Times ==
    {<< >>, << 0, 0, 0, 0, 0, 0, 0, 1 >>,
     << 0, 0, 0, 0, 0, 0, 0, 1, 0, 0, 0, 0, 0, 0, 0, 2 >>,
     << 0, 0, 0, 0, 0, 0, 1 >>}

\* a value buffer of two TEXT cells, "hello" and "h"
TextBuffers == {<< 0, 0, 0, 5, 104, 101, 108, 108, 111, 0, 0, 0, 1, 104 >>}

\* one column as the server sends it
Column ==
    [tag : Tags, bitmap : Bitmaps, value : Buffers]
    \cup [tag : {"TEXT"}, bitmap : Bitmaps, value : TextBuffers]

\* the columns of the two-column responses
PairColumn ==
    [tag : {"BOOLEAN", "INT32", "TEXT"}, bitmap : {<< 176 >>, << 255 >>},
     value : {<< 1 >>, << 0, 0, 0, 1, 104 >>, << 0, 0, 0, 0, 0, 0, 1, 2 >>}]

ColumnNames == << "s1", "s2" >>

\* where a column name stands in ColumnNames
position(name) == CHOOSE i \in 1..Len(ColumnNames) : ColumnNames[i] = name

\* columns, tags and buffers of a response
Payload(cols, stray) ==
    [columns |-> [i \in 1..Len(cols) |-> ColumnNames[i]],
     tags |-> [i \in 1..Len(cols) |-> cols[i].tag],
     bitmap_list |-> [i \in 1..Len(cols) |-> cols[i].bitmap],
     value_list |-> [i \in 1..Len(cols) |-> cols[i].value] \o stray]

Payloads ==
    {Payload(<< >>, stray) : stray \in {<< >>, << << 1 >> >>}}
    \cup {Payload(<< c >>, << >>) : c \in Column}
    \cup {Payload(<< c1, c2 >>, << >>) : c1 \in PairColumn, c2 \in PairColumn}

\* how the response departs from the plain one
Shapes == {"plain", "no_types", "short_types", "long_types", "swap_map",
           "partial_map", "no_query_id", "no_data_set", "no_columns", "status_only"}

\* TSExecuteStatementResp as far as DataSet::new reads it
Response(p, time, shape) ==
    LET n == Len(p.columns) IN
    [data_type_list |->
        CASE shape = "no_types" -> None
          [] shape = "short_types" -> Some(SubSeq(p.tags, 1, n - 1))
          [] shape = "long_types" -> Some(Append(p.tags, "INT32"))
          [] OTHER -> Some(p.tags),
     columns |-> IF shape = "no_columns" THEN None ELSE Some(p.columns),
     query_data_set |->
        IF shape \in {"no_data_set", "status_only"} THEN None
        ELSE Some([time |-> time, value_list |-> p.value_list,
                   bitmap_list |-> p.bitmap_list]),
     column_name_index_map |->
        CASE shape = "swap_map" ->
                Some([name \in {p.columns[i] : i \in 1..n} |-> n - position(name)])
          [] shape = "partial_map" ->
                Some([name \in {p.columns[i] : i \in 1..n} \cap {"s1"} |-> n - 1])
          [] OTHER -> None,
     query_id |-> IF shape \in {"no_query_id", "status_only"} THEN None ELSE Some(1)]

Responses == {Response(p, time, shape) : p \in Payloads, time \in Times, shape \in Shapes}

(***************************************************************************)
(* DataSet::new as a state machine: the conversion of the type tags, then  *)
(* one step per pass of the loop of resp_to_rows, then the DataSet         *)
(***************************************************************************)
\* the session is not part of these behaviours
NoSession ==
    /\ impl = "lib_rs"
    /\ constructed = FALSE
    /\ protocol_version = "V3"
    /\ session_id = new.session_id
    /\ statement_id = new.statement_id
    /\ is_close = new.is_close
    /\ crashed = FALSE
    /\ call = NoCall
    /\ prev = Summary(NoCall)
    /\ closed_ok = FALSE
    /\ open_failed = FALSE
    /\ srv_ids = [session_id |-> -1, statement_id |-> -1]
    /\ OnlyCalls

sessionvars == << impl, constructed, protocol_version, session_id, statement_id,
                  is_close, crashed, call, prev, closed_ok, open_failed, srv_ids,
                  wire, conversions, config, supplied, request >>

InitDecode ==
    /\ NoSession
    /\ pc = "new"
    /\ resp \in Responses
    /\ data_types = << >>
    /\ value_list = << >>
    /\ row_num = 0
    /\ values = << >>
    /\ record_batch = RecordBatch_default
    /\ panicked = ""
    /\ table = Table_new

\* the panic named why unwinds out of DataSet::new
Panics(why) ==
    /\ pc' = "panic"
    /\ panicked' = why
    /\ UNCHANGED << resp, data_types, value_list, row_num, values, record_batch,
                    table >>

\* the struct is built around batch: query_id is unwrapped
Built(batch) ==
    IF IsNone(resp.query_id)
    THEN Panics("query_id_unwrap")
    ELSE /\ pc' = "done"
         /\ record_batch' = batch
         /\ UNCHANGED << resp, data_types, value_list, row_num, values, panicked,
                         table >>

\* DataSet::new up to the loop of resp_to_rows
DataSetNew ==
    /\ pc = "new"
    /\ LET tags  == IF IsNone(resp.data_type_list) THEN << >>
                    ELSE unwrap(resp.data_type_list)
           types == [i \in 1..Len(tags) |-> DataType_from(tags[i])]
       IN IF \E i \in 1..Len(types) : types[i] = "panic"
          THEN Panics("unknown_data_type")
          ELSE IF IsSome(resp.query_data_set)
          THEN IF IsNone(resp.columns)
               THEN Panics("columns_unwrap")
               ELSE /\ pc' = "rows"
                    /\ data_types' = types
                    /\ value_list' = unwrap(resp.query_data_set).value_list
                    /\ row_num' = 0
                    /\ values' = << >>
                    /\ UNCHANGED << resp, record_batch, panicked, table >>
          ELSE Built(RecordBatch_default)
    /\ UNCHANGED sessionvars

\* one pass of the loop body
DecodeRow ==
    /\ pc = "rows"
    /\ sum_len(value_list) # 0
    /\ row_num < MaxRows
    /\ LET out == decode_row(resp, data_types, value_list, row_num) IN
       IF out.panic # ""
       THEN Panics(out.panic)
       ELSE /\ value_list' = out.value_list
            /\ row_num' = row_num + 1
            /\ values' = Append(values, out.value_row)
            /\ UNCHANGED << pc, resp, data_types, record_batch, panicked, table >>
    /\ UNCHANGED sessionvars

\* the break of the loop and the rest of DataSet::new
Finish ==
    /\ pc = "rows"
    /\ sum_len(value_list) = 0
    /\ Built(RecordBatch_new(unwrap(resp.columns), values))
    /\ UNCHANGED sessionvars

\* DataSet::show on the DataSet built.  ignore: DataSet.ignore_time_stamp,
\* copied from the response
Show ==
    /\ pc = "done"
    /\ \E ignore \in {None, Some(TRUE), Some(FALSE)} :
          LET out == show(record_batch, ignore) IN
          IF out.panic
          THEN Panics("from_utf8")
          ELSE /\ pc' = "shown"
               /\ table' = out.table
               /\ UNCHANGED << resp, data_types, value_list, row_num, values,
                               record_batch, panicked >>
    /\ UNCHANGED sessionvars

NextDecode ==
    \/ DataSetNew
    \/ DecodeRow
    \/ Finish
    \/ Show

SpecDecode == InitDecode /\ [][NextDecode]_vars

\* the plain responses of no column or one column, for the behaviours that
\* are followed to their end
InitDecodeLive ==
    /\ InitDecode
    /\ IsSome(resp.query_data_set) /\ IsSome(resp.query_id)
    /\ IsSome(resp.columns) /\ Len(unwrap(resp.columns)) <= 1
    /\ IsSome(resp.data_type_list)
    /\ Len(unwrap(resp.data_type_list)) = Len(unwrap(resp.columns))
    /\ IsNone(resp.column_name_index_map)

\* the head of the loop when it goes on: sum_len is not 0
LoopTest ==
    /\ pc = "rows"
    /\ sum_len(value_list) # 0
    /\ pc' = "body"
    /\ UNCHANGED << resp, data_types, value_list, row_num, values, record_batch,
                    panicked, table >>
    /\ UNCHANGED sessionvars

\* the body of the loop, back to its head.  The body reads row_num only as
\* row_num % 8, the bit of the bitmap byte: past MaxRows the count is kept
\* modulo 8 and the rows are built but no longer kept
LoopBody ==
    /\ pc = "body"
    /\ LET out == decode_row(resp, data_types, value_list, row_num) IN
       IF out.panic # ""
       THEN Panics(out.panic)
       ELSE /\ pc' = "rows"
            /\ value_list' = out.value_list
            /\ row_num' = IF row_num < MaxRows THEN row_num + 1 ELSE row_num - 7
            /\ values' = IF Len(values) < MaxRows THEN Append(values, out.value_row)
                         ELSE values
            /\ UNCHANGED << resp, data_types, record_batch, panicked, table >>
    /\ UNCHANGED sessionvars

NextDecodeLive ==
    \/ DataSetNew
    \/ LoopTest
    \/ LoopBody
    \/ Finish
    \/ Show

\* the decoding thread keeps running: a step of DataSet::new or show that
\* can be taken is taken
SpecDecodeLive ==
    InitDecodeLive /\ [][NextDecodeLive]_vars /\ WF_vars(NextDecodeLive)

(***************************************************************************)
(* Properties of the decoder (SpecDecode)                                  *)
(***************************************************************************)
\* the timestamp buffer of the response being decoded
TimeBuffer == unwrap(resp.query_data_set).time

\* the decoder is in, or has left, the loop of resp_to_rows
Decoding == pc \in {"rows", "done"} /\ IsSome(resp.query_data_set)

\* C17: with a non-empty timestamp buffer, the timestamp of decoded row r
\* (counted from 0) is the big-endian signed value of bytes [8r, 8r+8) of
\* the original buffer, for every row the buffer has eight bytes for.
C17_RowTimestampAdvances ==
    (Decoding /\ TimeBuffer # << >> /\ IsSome(resp.columns)
        /\ unwrap(resp.columns) # << >>)
    => \A r \in 1..Len(values) :
          Len(TimeBuffer) >= 8 * r
          => values[r].timestamp = read_signed(SubSeq(TimeBuffer, 8 * r - 7, 8 * r))

\* bit (0x80 >> (r mod 8)) of the byte is set
BitSet(byte, r) == (byte \div (2 ^ (7 - (r % 8)))) % 2 = 1

\* some payload slot of the field is filled
HasPayload(field) ==
    \/ IsSome(field.bool_value) \/ IsSome(field.int_value)
    \/ IsSome(field.long_value) \/ IsSome(field.float_value)
    \/ IsSome(field.double_value) \/ IsSome(field.binary_value)

\* the buffer index (from 1) the cells of column c are read from
BufferOf(c) == remapped(resp.column_name_index_map, unwrap(resp.columns)[c], c) + 1

\* the bitmap byte of column c
BitmapByte(c) == unwrap(resp.query_data_set).bitmap_list[BufferOf(c)][1]

ShortBufferPanics == {"time_drain", "value_drain", "text_drain", "value_index"}

\* C19: a non-null cell whose value buffer is too short for its type (a TEXT
\* length beyond the remaining bytes or negative included), or a timestamp
\* buffer of fewer than 8 bytes, does not make the decoder panic.
C19_ShortBufferIsNoPanic == ~(pc = "panic" /\ panicked \in ShortBufferPanics)

\* C20: a data-type tag outside the six known ones does not make
\* DataSet::new panic.
C20_UnknownTagIsNoPanic == ~(pc = "panic" /\ panicked = "unknown_data_type")

\* C21: DataSet::new on a response without query_data_set (whose type tags,
\* if any, are known ones), with or without a query_id, returns the DataSet
\* of the default batch: no columns, no rows, is_empty set; show adds no row.
C21_NoDataSetGivesEmptyBatch ==
    (pc \in {"done", "shown", "panic"} /\ IsNone(resp.query_data_set)
        /\ panicked # "unknown_data_type")
    => /\ pc # "panic"
       /\ record_batch = RecordBatch_default
       /\ pc = "shown" => table.rows = << >>

\* DataSet::new reached the loop of resp_to_rows with this response
EnteredLoop ==
    /\ pc \in {"rows", "done", "shown", "panic"}
    /\ IsSome(resp.query_data_set)
    /\ IsSome(resp.columns)
    /\ panicked # "unknown_data_type"

\* every buffer of the list is empty
AllEmpty(vl) == \A k \in 1..Len(vl) : vl[k] = << >>

\* C22: when every value buffer of the payload is empty from the start, the
\* loop breaks at once: no row is ever built, nothing panics inside the
\* decoder, and the batch returned has zero rows.
C22_EmptyBuffersGiveZeroRows ==
    (EnteredLoop /\ AllEmpty(unwrap(resp.query_data_set).value_list))
    => /\ values = << >>
       /\ row_num = 0
       /\ AllEmpty(value_list)
       /\ panicked \in {"", "query_id_unwrap"}
       /\ pc \in {"done", "shown"} => (record_batch.values = << >> /\ ~record_batch.is_empty)

\* a batch was returned for a column with an empty value buffer, a bitmap
\* that marks every row present and a timestamp buffer that is not empty
C22_Witness ==
    /\ pc = "done"
    /\ EnteredLoop
    /\ unwrap(resp.query_data_set).value_list = << << >> >>
    /\ unwrap(resp.query_data_set).bitmap_list = << << 255 >> >>
    /\ unwrap(resp.query_data_set).time # << >>
    /\ record_batch.values = << >>
    /\ record_batch.columns = << "s1" >>

\* the loop appends a row in this step
RowStep == pc = "rows" /\ pc' = "rows" /\ row_num' = row_num + 1

\* the columns whose cell of the row being decoded is read from buffer k
\* and is not null
ReadersOf(k) ==
    {c \in 1..Len(unwrap(resp.columns)) :
        BufferOf(c) = k /\ BitSet(BitmapByte(c), row_num)}

\* the number the first four bytes spell, most significant first, for a
\* first byte below 128
Length32(buf) == ((buf[1] * 256 + buf[2]) * 256 + buf[3]) * 256 + buf[4]

\* C23: a non-null TEXT cell, the only cell of its row read from its
\* buffer, takes the 4-byte big-endian length L at the front of the buffer
\* and then the next L bytes as its payload; the buffer afterwards is what
\* followed those 4 + L bytes.
C23_TextTakesLengthThenPayload ==
    [][RowStep
       => \A c \in 1..Len(unwrap(resp.columns)) :
             LET k == BufferOf(c)
                 buf == value_list[k]
             IN (data_types[c] = "TEXT" /\ ReadersOf(k) = {c})
                => /\ Len(buf) >= 4 + Length32(buf)
                   /\ values'[Len(values')].fields[c].binary_value
                        = Some(SubSeq(buf, 5, 4 + Length32(buf)))
                   /\ value_list'[k] = SubSeq(buf, 5 + Length32(buf), Len(buf))
                   /\ Len(value_list'[k]) = Len(buf) - (4 + Length32(buf))]_vars

\* "hello" was decoded from [0,0,0,5,'h','e','l','l','o', ...]: 9 bytes are
\* gone and the five bytes of the next cell are still in the buffer
C23_Witness ==
    /\ pc = "rows"
    /\ Len(values) = 1
    /\ unwrap(resp.query_data_set).value_list
         = << << 0, 0, 0, 5, 104, 101, 108, 108, 111, 0, 0, 0, 1, 104 >> >>
    /\ values[1].fields[1].binary_value = Some(<< 104, 101, 108, 108, 111 >>)
    /\ value_list[1] = << 0, 0, 0, 1, 104 >>

\* C25: a batch the decoder returns has as many columns as data types, and
\* every row of it has as many fields as columns, the field at position c
\* being of the type declared for column c.
C25_ColumnsTypesFieldsAgree ==
    (pc \in {"done", "shown"} /\ IsSome(resp.query_data_set))
    => /\ Len(record_batch.columns) = Len(data_types)
       /\ \A r \in 1..Len(record_batch.values) :
             /\ Len(record_batch.values[r].fields) = Len(record_batch.columns)
             /\ \A c \in 1..Len(record_batch.columns) :
                   record_batch.values[r].fields[c].data_type = data_types[c]

\* the payload slots of a field that are filled
Populated(field) ==
    {slot \in {"bool_value", "int_value", "long_value", "float_value",
               "double_value", "binary_value"} : IsSome(field[slot])}

\* the payload slot that belongs to a data type
SlotOf(data_type) ==
    CASE data_type = "BOOLEAN" -> "bool_value"
      [] data_type = "INT32" -> "int_value"
      [] data_type = "INT64" -> "long_value"
      [] data_type = "FLOAT" -> "float_value"
      [] data_type = "DOUBLE" -> "double_value"
      [] data_type = "TEXT" -> "binary_value"

\* at most one slot is filled, and only the one of the declared type
WellFormedField(field) == Populated(field) \subseteq {SlotOf(field.data_type)}

\* C26: every Field of every row the decoder has built, and every Field
\* that either Field::new builds, has at most one payload slot filled, and
\* a filled slot is the one of the Field's declared data type.
C26_OnePayloadOfDeclaredType ==
    /\ \A r \in 1..Len(values) :
          \A c \in 1..Len(values[r].fields) : WellFormedField(values[r].fields[c])
    /\ \A r \in 1..Len(record_batch.values) :
          \A c \in 1..Len(record_batch.values[r].fields) :
             WellFormedField(record_batch.values[r].fields[c])
    /\ \A data_type \in DataTypes :
          /\ WellFormedField(Field_new(data_type))
          /\ WellFormedField(iotdb_Field_new(data_type))

\* a row of two fields was built, one null and one with its payload
C26_Witness ==
    /\ pc \in {"rows", "done"}
    /\ \E r \in 1..Len(values) :
          /\ Len(values[r].fields) = 2
          /\ \E c, d \in 1..2 :
                /\ Populated(values[r].fields[c]) = {}
                /\ Populated(values[r].fields[d]) = {SlotOf(data_types[d])}

\* the buffer (from 1) the index map names for column c: the entry of the
\* column's name plus one, or c itself when the name has no entry
MappedBuffer(c) ==
    LET map  == unwrap(resp.column_name_index_map)
        name == unwrap(resp.columns)[c]
    IN IF name \in DOMAIN map THEN map[name] + 1 ELSE c

\* the columns whose cell of the row being decoded is taken from buffer k
\* according to the index map
MappedReaders(k) ==
    {c \in 1..Len(unwrap(resp.columns)) :
        /\ MappedBuffer(c) = k
        /\ BitSet(unwrap(resp.query_data_set).bitmap_list[k][1], row_num)}

\* C28: with an index map present, in every row the loop appends the cell
\* of column c is null or not by the bitmap byte at the mapped index, its
\* payload is decoded from the front of the value buffer at the mapped
\* index (which loses exactly those bytes), with the data type declared at
\* position c, and the Field stands at position c of the row.
C28_RemapSelectsBuffers ==
    [][(RowStep /\ IsSome(resp.column_name_index_map))
       => LET row == values'[Len(values')] IN
          \A c \in 1..Len(unwrap(resp.columns)) :
             LET k == MappedBuffer(c)
                 present == BitSet(unwrap(resp.query_data_set).bitmap_list[k][1],
                                   row_num)
             IN /\ row.fields[c].data_type = data_types[c]
                /\ present <=> HasPayload(row.fields[c])
                /\ (present /\ MappedReaders(k) = {c})
                     => /\ row.fields[c] = decode_value(data_types[c], value_list[k]).field
                        /\ value_list'[k] = decode_value(data_types[c], value_list[k]).buf
                /\ MappedReaders(c) = {} => value_list'[c] = value_list[c]]_vars

\* two columns with their buffers exchanged by the map: the BOOLEAN column
\* s1 took its cell from buffer 2, the TEXT column s2 from buffer 1
C28_Witness ==
    /\ pc = "rows"
    /\ Len(values) = 1
    /\ IsSome(resp.column_name_index_map)
    /\ unwrap(resp.columns) = << "s1", "s2" >>
    /\ DOMAIN unwrap(resp.column_name_index_map) = {"s1", "s2"}
    /\ unwrap(resp.column_name_index_map)["s1"] = 1
    /\ unwrap(resp.column_name_index_map)["s2"] = 0
    /\ unwrap(resp.query_data_set).value_list = << << 0, 0, 0, 1, 104 >>, << 1 >> >>
    /\ data_types = << "BOOLEAN", "TEXT" >>
    /\ values[1].fields[1].bool_value = Some(TRUE)
    /\ values[1].fields[2].binary_value = Some(<< 104 >>)
    /\ value_list = << << >>, << >> >>

\* bytes a fixed-width type takes
WidthOf(data_type) ==
    CASE data_type = "BOOLEAN" -> 1
      [] data_type \in {"INT32", "FLOAT"} -> 4
      [] data_type \in {"INT64", "DOUBLE"} -> 8

\* the signed number the bytes spell, most significant first
RECURSIVE BigEndian(_)
BigEndian(bytes) ==
    IF Len(bytes) = 1
    THEN IF bytes[1] >= 128 THEN bytes[1] - 256 ELSE bytes[1]
    ELSE BigEndian(SubSeq(bytes, 1, Len(bytes) - 1)) * 256 + bytes[Len(bytes)]

\* the payload a fixed-width type makes of its bytes
FixedPayload(data_type, bytes) ==
    CASE data_type = "BOOLEAN" -> [Field_new(data_type) EXCEPT
                                      !.bool_value = Some(bytes[1] = 1)]
      [] data_type = "INT32" -> [Field_new(data_type) EXCEPT
                                    !.int_value = Some(BigEndian(bytes))]
      [] data_type = "INT64" -> [Field_new(data_type) EXCEPT
                                    !.long_value = Some(BigEndian(bytes))]
      [] data_type = "FLOAT" -> [Field_new(data_type) EXCEPT
                                    !.float_value = Some([bits |-> BigEndian(bytes)])]
      [] data_type = "DOUBLE" -> [Field_new(data_type) EXCEPT
                                     !.double_value = Some([bits |-> BigEndian(bytes)])]

\* C29: in every row the loop appends, a non-null cell of a fixed-width
\* type, the only cell of the row read from its buffer, is made of the
\* first 1 (BOOLEAN, true iff the byte is 1), 4 (INT32, FLOAT) or 8 (INT64,
\* DOUBLE) bytes of the buffer, which loses exactly those bytes; a buffer no
\* non-null cell of the row reads, and the bitmaps, stay as they were.
C29_FixedWidthConsumption ==
    [][RowStep
       => /\ \A c \in 1..Len(unwrap(resp.columns)) :
                LET k == BufferOf(c)
                    w == WidthOf(data_types[c])
                IN (data_types[c] # "TEXT" /\ ReadersOf(k) = {c})
                   => /\ Len(value_list[k]) >= w
                      /\ values'[Len(values')].fields[c]
                           = FixedPayload(data_types[c], SubSeq(value_list[k], 1, w))
                      /\ value_list'[k] = SubSeq(value_list[k], w + 1, Len(value_list[k]))
          /\ \A k \in 1..Len(value_list) : ReadersOf(k) = {} => value_list'[k] = value_list[k]
          /\ resp' = resp]_vars

\* an INT32 column decoded 0 and then 258 from [0,0,0,0, 0,0,1,2]
C29_Witness ==
    /\ pc = "rows"
    /\ data_types = << "INT32" >>
    /\ unwrap(resp.query_data_set).value_list = << << 0, 0, 0, 0, 0, 0, 1, 2 >> >>
    /\ Len(values) = 2
    /\ values[1].fields[1].int_value = Some(0)
    /\ values[2].fields[1].int_value = Some(258)
    /\ value_list = << << >> >>

\* C30: for a response with a column list of zero columns and a timestamp
\* buffer of at least one timestamp, the batch returned has a row with that
\* timestamp and no fields.
C30_ZeroColumnsGiveTimestampedRow ==
    (pc \in {"done", "shown"} /\ IsSome(resp.query_data_set)
        /\ unwrap(resp.columns) = << >> /\ Len(TimeBuffer) >= 8)
    => /\ Len(record_batch.values) >= 1
       /\ record_batch.values[1].timestamp = BigEndian(SubSeq(TimeBuffer, 1, 8))
       /\ record_batch.values[1].fields = << >>

(***************************************************************************)
(* The enum conversions of src/src/utils.rs and src/src/common.rs.  A      *)
(* variant is written as its name.                                         *)
(***************************************************************************)
\* integers a caller may hand to From<i32>
Codes == -1..6

\* the conversions kept in the log
MaxLog == 2

\* impl From<i32> for TSDataType: the variant, or "panic"
TSDataType_from(value) ==
    CASE value = 0 -> "BOOLEAN"
      [] value = 1 -> "INT32"
      [] value = 2 -> "INT64"
      [] value = 3 -> "FLOAT"
      [] value = 4 -> "DOUBLE"
      [] value = 5 -> "TEXT"
      [] OTHER -> "panic"

\* Into<i32> with the codes of FLOAT and DOUBLE exchanged
TSDataType_into_swapped(x) ==
    CASE x = "BOOLEAN" -> 0
      [] x = "INT32" -> 1
      [] x = "INT64" -> 2
      [] x = "FLOAT" -> 4
      [] x = "DOUBLE" -> 3
      [] x = "TEXT" -> 5

\* impl Into<i32> for TSDataType
TSDataType_into(x) ==
    CASE x = "BOOLEAN" -> 0
      [] x = "INT32" -> 1
      [] x = "INT64" -> 2
      [] x = "FLOAT" -> 3
      [] x = "DOUBLE" -> 4
      [] x = "TEXT" -> 5

\* impl Into<i32> for DataType
DataType_into(x) ==
    CASE x = "BOOLEAN" -> 0
      [] x = "INT32" -> 1
      [] x = "INT64" -> 2
      [] x = "FLOAT" -> 3
      [] x = "DOUBLE" -> 4
      [] x = "TEXT" -> 5

\* the variants of Encoding and TSEncoding, and of the two Compressor enums
Encodings == {"PLAIN", "PlainDictionary", "RLE", "DIFF", "Ts2diff", "BITMAP", "GorillaV1", "REGULAR", "GORILLA"}

Compressors == {"UNCOMPRESSED", "SNAPPY", "GZIP", "LZO", "SDT", "PAA", "PLA", "LZ4"}

\* impl From<i32> for Encoding (common.rs)
Encoding_from(value) ==
    CASE value = 0 -> "PLAIN"
      [] value = 1 -> "PlainDictionary"
      [] value = 2 -> "RLE"
      [] value = 3 -> "DIFF"
      [] value = 4 -> "Ts2diff"
      [] value = 5 -> "BITMAP"
      [] value = 6 -> "GorillaV1"
      [] value = 7 -> "REGULAR"
      [] value = 8 -> "GORILLA"
      [] OTHER -> "panic"

\* Into<i32> with GORILLA given the code of GorillaV1
Encoding_into_merged(x) ==
    CASE x = "PLAIN" -> 0
      [] x = "PlainDictionary" -> 1
      [] x = "RLE" -> 2
      [] x = "DIFF" -> 3
      [] x = "Ts2diff" -> 4
      [] x = "BITMAP" -> 5
      [] x = "GorillaV1" -> 6
      [] x = "REGULAR" -> 7
      [] x = "GORILLA" -> 6

\* impl Into<i32> for Encoding (common.rs)
Encoding_into(x) ==
    CASE x = "PLAIN" -> 0
      [] x = "PlainDictionary" -> 1
      [] x = "RLE" -> 2
      [] x = "DIFF" -> 3
      [] x = "Ts2diff" -> 4
      [] x = "BITMAP" -> 5
      [] x = "GorillaV1" -> 6
      [] x = "REGULAR" -> 7
      [] x = "GORILLA" -> 8

\* impl From<i32> for Compressor (common.rs)
Compressor_from(value) ==
    CASE value = 0 -> "UNCOMPRESSED"
      [] value = 1 -> "SNAPPY"
      [] value = 2 -> "GZIP"
      [] value = 3 -> "LZO"
      [] value = 4 -> "SDT"
      [] value = 5 -> "PAA"
      [] value = 6 -> "PLA"
      [] value = 7 -> "LZ4"
      [] OTHER -> "panic"

\* impl Into<i32> for Compressor (common.rs)
Compressor_into(x) ==
    CASE x = "UNCOMPRESSED" -> 0
      [] x = "SNAPPY" -> 1
      [] x = "GZIP" -> 2
      [] x = "LZO" -> 3
      [] x = "SDT" -> 4
      [] x = "PAA" -> 5
      [] x = "PLA" -> 6
      [] x = "LZ4" -> 7

\* impl From<i32> for TSEncoding (utils.rs)
TSEncoding_from(value) ==
    CASE value = 0 -> "PLAIN"
      [] value = 1 -> "PlainDictionary"
      [] value = 2 -> "RLE"
      [] value = 3 -> "DIFF"
      [] value = 4 -> "Ts2diff"
      [] value = 5 -> "BITMAP"
      [] value = 6 -> "GorillaV1"
      [] value = 7 -> "REGULAR"
      [] value = 8 -> "GORILLA"
      [] OTHER -> "panic"

\* impl Into<i32> for TSEncoding (utils.rs)
TSEncoding_into(x) ==
    CASE x = "PLAIN" -> 0
      [] x = "PlainDictionary" -> 1
      [] x = "RLE" -> 2
      [] x = "DIFF" -> 3
      [] x = "Ts2diff" -> 4
      [] x = "BITMAP" -> 5
      [] x = "GorillaV1" -> 6
      [] x = "REGULAR" -> 7
      [] x = "GORILLA" -> 8

\* impl From<i32> for Compressor (utils.rs)
utils_Compressor_from(value) ==
    CASE value = 0 -> "UNCOMPRESSED"
      [] value = 1 -> "SNAPPY"
      [] value = 2 -> "GZIP"
      [] value = 3 -> "LZO"
      [] value = 4 -> "SDT"
      [] value = 5 -> "PAA"
      [] value = 6 -> "PLA"
      [] value = 7 -> "LZ4"
      [] OTHER -> "panic"

\* impl Into<i32> for Compressor (utils.rs)
utils_Compressor_into(x) ==
    CASE x = "UNCOMPRESSED" -> 0
      [] x = "SNAPPY" -> 1
      [] x = "GZIP" -> 2
      [] x = "LZO" -> 3
      [] x = "SDT" -> 4
      [] x = "PAA" -> 5
      [] x = "PLA" -> 6
      [] x = "LZ4" -> 7

\* no session and no DataSet take part
OnlyConversions ==
    /\ impl = "lib_rs"
    /\ constructed = FALSE
    /\ protocol_version = "V3"
    /\ session_id = new.session_id
    /\ statement_id = new.statement_id
    /\ is_close = new.is_close
    /\ crashed = FALSE
    /\ call = NoCall
    /\ prev = Summary(NoCall)
    /\ closed_ok = FALSE
    /\ open_failed = FALSE
    /\ srv_ids = [session_id |-> -1, statement_id |-> -1]
    /\ wire = NoWire
    /\ Unconfigured
    /\ NoDecoding

InitConvert ==
    /\ OnlyConversions
    /\ conversions = << >>

\* the conversion is made unless a panic ended the thread or the log is full
Converted(entry) ==
    /\ Len(conversions) < MaxLog
    /\ \A i \in 1..Len(conversions) : conversions[i].variant # "panic"
    /\ conversions' = Append(conversions, entry)
    /\ UNCHANGED << impl, constructed, protocol_version, session_id, statement_id,
                    is_close, crashed, call, prev, closed_ok, open_failed, srv_ids,
                    wire, config, supplied, request >>
    /\ UNCHANGED decvars

\* let n: i32 = x.into(); TSDataType::from(n)
TSDataTypeIntoFrom ==
    \E x \in DataTypes :
        Converted([conv |-> "TSDataType_into_from", variant |-> x,
                   code |-> TSDataType_into(x),
                   back |-> TSDataType_from(TSDataType_into(x))])

\* let x = TSDataType::from(n); x.into()
TSDataTypeFromInto ==
    \E n \in Codes :
        LET x == TSDataType_from(n) IN
        Converted([conv |-> "TSDataType_from_into", code |-> n, variant |-> x,
                   back |-> IF x = "panic" THEN n ELSE TSDataType_into(x)])

\* let n: i32 = x.into() for a DataType, which has no From<i32>; the
\* TSDataType of that code
DataTypeInto ==
    \E x \in DataTypes :
        Converted([conv |-> "DataType_into", variant |-> x,
                   code |-> DataType_into(x),
                   back |-> TSDataType_from(DataType_into(x))])

\* let n: i32 = e.into(); Encoding::from(n)
EncodingIntoFrom ==
    \E e \in Encodings :
        Converted([conv |-> "Encoding_into_from", variant |-> e,
                   code |-> Encoding_into(e),
                   back |-> Encoding_from(Encoding_into(e))])

\* let n: i32 = c.into(); Compressor::from(n)
CompressorIntoFrom ==
    \E c \in Compressors :
        Converted([conv |-> "Compressor_into_from", variant |-> c,
                   code |-> Compressor_into(c),
                   back |-> Compressor_from(Compressor_into(c))])

\* the same round trip through TSEncoding of utils.rs
TSEncodingIntoFrom ==
    \E e \in Encodings :
        Converted([conv |-> "TSEncoding_into_from", variant |-> e,
                   code |-> TSEncoding_into(e),
                   back |-> TSEncoding_from(TSEncoding_into(e))])

\* the same round trip through Compressor of utils.rs
UtilsCompressorIntoFrom ==
    \E c \in Compressors :
        Converted([conv |-> "utils_Compressor_into_from", variant |-> c,
                   code |-> utils_Compressor_into(c),
                   back |-> utils_Compressor_from(utils_Compressor_into(c))])

\* str.parse::<Endpoint>() and, when it succeeds, to_string() of the result
EndpointFromStr ==
    \E str \in EndpointStrings :
        LET parsed == Endpoint_from_str(str) IN
        Converted([conv |-> "Endpoint_from_str", str |-> str,
                   variant |-> IF parsed.ok THEN "ok" ELSE "err",
                   endpoint |-> parsed.endpoint,
                   back |-> IF parsed.ok THEN Endpoint_to_string(parsed.endpoint)
                            ELSE << >>])

\* Endpoint::default()
EndpointDefault ==
    Converted([conv |-> "Endpoint_default",
               variant |-> IF Endpoint_default.panic THEN "panic" ELSE "ok",
               endpoint |-> Endpoint_default.endpoint])

NextConvert ==
    \/ EndpointFromStr
    \/ EndpointDefault
    \/ TSDataTypeIntoFrom
    \/ TSDataTypeFromInto
    \/ DataTypeInto
    \/ EncodingIntoFrom
    \/ CompressorIntoFrom
    \/ TSEncodingIntoFrom
    \/ UtilsCompressorIntoFrom

SpecConvert == InitConvert /\ [][NextConvert]_vars

(***************************************************************************)
(* Properties of the conversions (SpecConvert)                             *)
(***************************************************************************)
\* the integer of each data type
CodeOf(x) ==
    CASE x = "BOOLEAN" -> 0
      [] x = "INT32" -> 1
      [] x = "INT64" -> 2
      [] x = "FLOAT" -> 3
      [] x = "DOUBLE" -> 4
      [] x = "TEXT" -> 5

\* C24: encoding a data type gives its integer (BOOLEAN=0, INT32=1, INT64=2,
\* FLOAT=3, DOUBLE=4, TEXT=5) and decoding that integer gives the data type
\* back; decoding an integer of 0..5 and encoding the result gives the
\* integer back.
C24_DataTypeRoundTrip ==
    \A i \in 1..Len(conversions) :
        LET e == conversions[i] IN
        /\ e.conv \in {"TSDataType_into_from", "DataType_into"}
             => (e.code = CodeOf(e.variant) /\ e.back = e.variant)
        /\ (e.conv = "TSDataType_from_into" /\ e.code \in 0..5)
             => (e.variant \in DataTypes /\ e.back = e.code
                 /\ CodeOf(e.variant) = e.code)

\* DOUBLE went to 4 and back, and 3 went to FLOAT and back
C24_Witness ==
    /\ Len(conversions) = 2
    /\ conversions[1] = [conv |-> "TSDataType_into_from", variant |-> "DOUBLE",
                         code |-> 4, back |-> "DOUBLE"]
    /\ conversions[2] = [conv |-> "TSDataType_from_into", code |-> 3,
                         variant |-> "FLOAT", back |-> 3]

(***************************************************************************)
(* The calls seen on the connection.  client.<rpc>(req) writes the request *)
(* and blocks until the response is read, so a method that makes two RPCs  *)
(* is two round trips; wire holds the method in progress, the responses it *)
(* has read and the requests written and not yet answered.                 *)
(***************************************************************************)
\* the responses the server may give to the request of that name
RepliesOf(name) ==
    CASE name = "open_session" -> OpenReplies
      [] name = "request_statement_id" -> StmtReplies
      [] name = "execute_query_statement" -> ExecReplies
      [] OTHER -> StatusReplies

\* the i-th response read, or a response the method never looks at
nth(got, i, unread) == IF i <= Len(got) THEN got[i] ELSE unread

\* the method op as far as it has come with the responses got
progress(op, got) ==
    CASE op = "open" ->
           open(State, protocol_version, got[1],
                nth(got, 2, [err |-> TRUE, id |-> 0]))
      [] op = "connect" ->
           connect(State, TRUE, protocol_version, got[1],
                   nth(got, 2, [err |-> TRUE, id |-> 0]))
      [] op = "set_storage_group" -> set_storage_group(State, got[1])
      [] op = "create_time_series" ->
           lib_create_time_series(State, got[1],
               nth(got, 2, [err |-> TRUE, status |-> [code |-> 0, message |-> None]]))

\* the method writes its first request
Sends(op, requests) ==
    /\ wire.op = "idle"
    /\ wire' = [op |-> op, got |-> << >>, inflight |-> requests]
    /\ UNCHANGED << impl, constructed, protocol_version, session_id, statement_id,
                    is_close, crashed, call, prev, closed_ok, open_failed, srv_ids,
                    conversions, config, supplied, request >>
    /\ UNCHANGED decvars

\* open() writing request_statement_id without waiting for open_session
WireOpenPipelined ==
    /\ impl = "session_rs" /\ ~crashed
    /\ Sends("open", << "open_session", "request_statement_id" >>)

\* Session::open (session.rs) is called: open_session is written
WireOpen ==
    /\ impl = "session_rs" /\ ~crashed
    /\ Sends("open", << "open_session" >>)

\* Session::set_storage_group (session.rs) is called
WireSetStorageGroup ==
    /\ impl = "session_rs" /\ ~crashed
    /\ Sends("set_storage_group", << "set_storage_group" >>)

\* Session::connect (lib.rs) is called: nothing is written when the TCP
\* connection fails
WireConnect ==
    /\ impl = "lib_rs" /\ ~crashed /\ ~constructed
    /\ wire.op = "idle"
    /\ \E tcp \in BOOLEAN :
          IF tcp
          THEN Sends("connect", << "open_session" >>)
          ELSE LET r0  == [err |-> TRUE, status |-> [code |-> 0, message |-> None],
                           server_protocol_version |-> "V3", session_id |-> None]
                   ret == connect(State, FALSE, protocol_version, r0,
                                  [err |-> TRUE, id |-> 0])
               IN /\ Invoked("connect", ret)
                  /\ constructed' = FALSE
                  /\ UNCHANGED << wire, config, supplied, request >>

\* Session::create_time_series (lib.rs) is called: the probe is written
WireCreateTimeSeries ==
    /\ impl = "lib_rs" /\ ~crashed /\ constructed
    /\ Sends("create_time_series", << "execute_query_statement" >>)

\* the blocked client call reads its response; the method goes on to its
\* next request, or returns
WireReceive ==
    /\ wire.inflight # << >>
    /\ \E reply \in RepliesOf(Head(wire.inflight)) :
          LET got2 == Append(wire.got, reply)
              left == Tail(wire.inflight)
              ret  == progress(wire.op, got2)
          IN IF left # << >>
             THEN /\ wire' = [wire EXCEPT !.got = got2, !.inflight = left]
                  /\ UNCHANGED << impl, constructed, protocol_version, session_id,
                                  statement_id, is_close, crashed, call, prev,
                                  closed_ok, open_failed, srv_ids, conversions, config, supplied, request >>
                  /\ UNCHANGED decvars
             ELSE IF Len(ret.rpcs) > Len(got2)
             THEN /\ wire' = [wire EXCEPT !.got = got2,
                                          !.inflight = << ret.rpcs[Len(got2) + 1].rpc >>]
                  /\ UNCHANGED << impl, constructed, protocol_version, session_id,
                                  statement_id, is_close, crashed, call, prev,
                                  closed_ok, open_failed, srv_ids, conversions, config, supplied, request >>
                  /\ UNCHANGED decvars
             ELSE /\ Invoked(wire.op, ret)
                  /\ wire' = NoWire
                  /\ UNCHANGED << config, supplied, request >>
                  /\ constructed' = IF wire.op = "connect" THEN ret.res = "ok"
                                    ELSE constructed

NextWire ==
    \/ WireOpen
    \/ WireSetStorageGroup
    \/ WireConnect
    \/ WireCreateTimeSeries
    \/ WireReceive

SpecWire == InitOps /\ [][NextWire]_vars

(***************************************************************************)
(* Properties of the connection (SpecWire)                                 *)
(***************************************************************************)
\* C27: with the calls on one Session made one after the other, at most one
\* request is unanswered at any moment, and a method writes its next
\* request only after it has read and examined the response to the one
\* before: request_statement_id and create_timeseries are in flight only
\* with the first response already read.
C27_OneRequestInFlight ==
    /\ Len(wire.inflight) <= 1
    /\ wire.op = "idle" => (wire.inflight = << >> /\ wire.got = << >>)
    /\ \A i \in 1..Len(wire.inflight) :
          wire.inflight[i] \in {"request_statement_id", "create_timeseries"}
             => (Len(wire.got) = 1 /\ ~wire.got[1].err)

\* open() has read a successful open_session response and waits for the
\* statement id
C27_Witness ==
    /\ wire.op = "open"
    /\ Len(wire.got) = 1
    /\ wire.got[1].status.code = SUCCESS_CODE
    /\ wire.inflight = << "request_statement_id" >>

\* the round trips of the Encoding enums, and of the Compressor enums
EncodingTrips == {"Encoding_into_from", "TSEncoding_into_from"}

CompressorTrips == {"Compressor_into_from", "utils_Compressor_into_from"}

\* C38: an Encoding variant goes to an integer of 0..8 and a Compressor
\* variant to an integer of 0..7 from which From<i32> gives the variant
\* back, and two different variants of one enum never go to the same
\* integer.
C38_EncodingCompressorRoundTrip ==
    \A i \in 1..Len(conversions) :
        LET e == conversions[i] IN
        /\ e.conv \in EncodingTrips => (e.code \in 0..8 /\ e.back = e.variant)
        /\ e.conv \in CompressorTrips => (e.code \in 0..7 /\ e.back = e.variant)
        /\ \A j \in 1..Len(conversions) :
              (/\ e.conv \in EncodingTrips \cup CompressorTrips
               /\ conversions[j].conv = e.conv
               /\ conversions[j].variant # e.variant)
              => conversions[j].code # e.code

\* GORILLA went to 8 and back, then GorillaV1 to 6 and back
C38_Witness ==
    /\ Len(conversions) = 2
    /\ conversions[1] = [conv |-> "Encoding_into_from", variant |-> "GORILLA",
                         code |-> 8, back |-> "GORILLA"]
    /\ conversions[2] = [conv |-> "Encoding_into_from", variant |-> "GorillaV1",
                         code |-> 6, back |-> "GorillaV1"]

\* the positions of the character ch in str
Occurrences(str, ch) == {i \in 1..Len(str) : str[i] = ch}

\* C37: parsing an endpoint string succeeds exactly when the string holds
\* one ':' (it splits into two parts), the host is then the part before it
\* and the port the part after it, and writing the endpoint out gives the
\* string back; any other string gives an error value and no panic; the
\* default endpoint is 127.0.0.1:6667.
C37_EndpointParseRoundTrip ==
    \A i \in 1..Len(conversions) :
        LET e == conversions[i] IN
        /\ e.conv = "Endpoint_from_str" =>
             /\ e.variant = (IF Cardinality(Occurrences(e.str, ":")) = 1
                             THEN "ok" ELSE "err")
             /\ e.variant = "ok" =>
                  LET colon == CHOOSE k \in Occurrences(e.str, ":") : TRUE IN
                  /\ e.endpoint.host = SubSeq(e.str, 1, colon - 1)
                  /\ e.endpoint.port = SubSeq(e.str, colon + 1, Len(e.str))
                  /\ e.back = e.str
        /\ e.conv = "Endpoint_default" =>
             /\ e.variant = "ok"
             /\ e.endpoint.host = << "1", "2", "7", ".", "0", ".", "0", ".", "1" >>
             /\ e.endpoint.port = << "6", "6", "6", "7" >>

\* "h1.h2:67" was parsed and written back, and "h:p:q" was refused
C37_Witness ==
    /\ Len(conversions) = 2
    /\ conversions[1].conv = "Endpoint_from_str"
    /\ conversions[1].str = << "h", "1", ".", "h", "2", ":", "6", "7" >>
    /\ conversions[1].variant = "ok"
    /\ conversions[1].back = conversions[1].str
    /\ conversions[2].conv = "Endpoint_from_str"
    /\ conversions[2].str = << "h", ":", "p", ":", "q" >>
    /\ conversions[2].variant = "err"

(***************************************************************************)
(* Termination of the row loop (SpecDecodeLive)                            *)
(***************************************************************************)
\* C34: on every response the row loop is left after finitely many rows,
\* with all value buffers empty or with an error: DataSet::new does not
\* stay in the loop for ever.
C34_RowLoopTerminates == <>(pc \notin {"new", "rows", "body"})

(***************************************************************************)
(* Configuring and opening.  The chained setters act on the fields before  *)
(* the Session is opened: on the Session itself in session.rs, on the      *)
(* ConfigBuilder in lib.rs, whose build() hands a clone of the Config to    *)
(* Session::connect.  supplied counts the setter calls, remembers the      *)
(* latest one and the configuration entries handed over so far.            *)
(***************************************************************************)
\* setter calls made on one Session or ConfigBuilder
MaxSetters == 2

Names == {"root", "u1"}

Zones == {DefaultZone, << "A", "s", "i", "a" >>}

FetchSizes == {1024, 512}

Timeouts == {3000, 10}

ConfigKeys == {"k1", "k2"}

ConfigValues == {"v1", "v2"}

\* the maps handed to config_map / set_config_map
ConfigMaps == {[k \in {"k1"} |-> "v2"], [k \in {"k1", "k2"} |-> "v1"]}

\* TSOpenSessionReq::new
TSOpenSessionReq_new(client_protocol, zone_id, username, password, configuration) ==
    [rpc |-> "open_session", client_protocol |-> client_protocol,
     zone_id |-> zone_id, username |-> username, password |-> password,
     configuration |-> configuration]

\* a setter returned: cfg and pv are the fields afterwards, entries the
\* configuration entries handed over so far, last the call
SetterCall(cfg, pv, entries, last) ==
    /\ ~crashed /\ call.op = "none"
    /\ supplied.calls < MaxSetters
    /\ config' = cfg
    /\ protocol_version' = pv
    /\ supplied' = [calls |-> supplied.calls + 1, entries |-> entries, last |-> last]
    /\ UNCHANGED << impl, constructed, session_id, statement_id, is_close, crashed,
                    call, prev, closed_ok, open_failed, srv_ids, wire, conversions,
                    request >>
    /\ UNCHANGED decvars

\* Session::user
Srs_user ==
    /\ impl = "session_rs"
    /\ \E user \in Names :
          SetterCall([config EXCEPT !.user = user],
                     protocol_version,
                     supplied.entries,
                     [setter |-> "user", arg |-> user])

\* Session::password
Srs_password ==
    /\ impl = "session_rs"
    /\ \E password \in Names :
          SetterCall([config EXCEPT !.password = password],
                     protocol_version,
                     supplied.entries,
                     [setter |-> "password", arg |-> password])

\* Session::zone_id
Srs_zone_id ==
    /\ impl = "session_rs"
    /\ \E zone_id \in Zones :
          SetterCall([config EXCEPT !.zone_id = zone_id],
                     protocol_version,
                     supplied.entries,
                     [setter |-> "zone_id", arg |-> zone_id])

\* Session::fetch_size
Srs_fetch_size ==
    /\ impl = "session_rs"
    /\ \E fetch_size \in FetchSizes :
          SetterCall([config EXCEPT !.fetch_size = fetch_size],
                     protocol_version,
                     supplied.entries,
                     [setter |-> "fetch_size", arg |-> fetch_size])

\* Session::protocol_version(user: &str): self.user = user.to_string()
Srs_protocol_version ==
    /\ impl = "session_rs"
    /\ \E user \in Names \cup Versions :
          SetterCall([config EXCEPT !.user = user],
                     protocol_version,
                     supplied.entries,
                     [setter |-> "protocol_version", arg |-> user])

\* Session::config: the entry is inserted into a clone of self.config, which
\* is dropped
Srs_config ==
    /\ impl = "session_rs"
    /\ \E key \in ConfigKeys, value \in ConfigValues :
          SetterCall(LET clone == insert(config.config, key, value) IN config,
                     protocol_version,
                     insert(supplied.entries, key, value),
                     [setter |-> "config", arg |-> << key, value >>])

\* Session::config_map: each entry is inserted into a fresh clone of
\* self.config
Srs_config_map ==
    /\ impl = "session_rs"
    /\ \E map \in ConfigMaps :
          SetterCall(LET clones == {insert(config.config, key, map[key]) : key \in DOMAIN map}
                           IN config,
                     protocol_version,
                     append(supplied.entries, map),
                     [setter |-> "config_map", arg |-> map])

\* ConfigBuilder::host_port
Cb_host_port ==
    /\ impl = "lib_rs"
    /\ \E host \in {<< "h" >>}, port \in {<< "6", "7" >>} :
          SetterCall([config EXCEPT !.endpoint = Endpoint_new(host, port)],
                     protocol_version,
                     supplied.entries,
                     [setter |-> "host_port", arg |-> host \o << ":" >> \o port])

\* ConfigBuilder::endpoint: Endpoint::from_str(endpoint).unwrap()
Cb_endpoint ==
    /\ impl = "lib_rs"
    /\ \E endpoint \in EndpointStrings :
          LET parsed == Endpoint_from_str(endpoint) IN
          IF parsed.ok
          THEN SetterCall([config EXCEPT !.endpoint = parsed.endpoint],
                          protocol_version, supplied.entries,
                          [setter |-> "endpoint", arg |-> endpoint])
          ELSE /\ ~crashed /\ call.op = "none"
               /\ supplied.calls < MaxSetters
               /\ crashed' = TRUE
               /\ supplied' = [calls |-> supplied.calls + 1,
                               entries |-> supplied.entries,
                               last |-> [setter |-> "endpoint", arg |-> endpoint]]
               /\ UNCHANGED << impl, constructed, protocol_version, session_id,
                               statement_id, is_close, call, prev, closed_ok,
                               open_failed, srv_ids, wire, conversions, config,
                               request >>
               /\ UNCHANGED decvars

\* ConfigBuilder::user
Cb_user ==
    /\ impl = "lib_rs"
    /\ \E user \in Names :
          SetterCall([config EXCEPT !.user = user],
                     protocol_version,
                     supplied.entries,
                     [setter |-> "user", arg |-> user])

\* ConfigBuilder::password
Cb_password ==
    /\ impl = "lib_rs"
    /\ \E password \in Names :
          SetterCall([config EXCEPT !.password = password],
                     protocol_version,
                     supplied.entries,
                     [setter |-> "password", arg |-> password])

\* ConfigBuilder::timeout
Cb_timeout ==
    /\ impl = "lib_rs"
    /\ \E timeout \in Timeouts :
          SetterCall([config EXCEPT !.timeout = timeout],
                     protocol_version,
                     supplied.entries,
                     [setter |-> "timeout", arg |-> timeout])

\* ConfigBuilder::time_zone
Cb_time_zone ==
    /\ impl = "lib_rs"
    /\ \E zone \in Zones :
          SetterCall([config EXCEPT !.time_zone = to_uppercase(zone)],
                     protocol_version,
                     supplied.entries,
                     [setter |-> "time_zone", arg |-> zone])

\* ConfigBuilder::fetch_size
Cb_fetch_size ==
    /\ impl = "lib_rs"
    /\ \E fetch_size \in FetchSizes :
          SetterCall([config EXCEPT !.fetch_size = fetch_size],
                     protocol_version,
                     supplied.entries,
                     [setter |-> "fetch_size", arg |-> fetch_size])

\* ConfigBuilder::enable_rpc_compaction
Cb_enable_rpc_compaction ==
    /\ impl = "lib_rs"
    /\ SetterCall([config EXCEPT !.rpc_compaction = TRUE],
                 protocol_version,
                 supplied.entries,
                 [setter |-> "enable_rpc_compaction", arg |-> TRUE])

\* ConfigBuilder::set_protocol_version
Cb_set_protocol_version ==
    /\ impl = "lib_rs"
    /\ \E pv \in Versions :
          SetterCall(config,
                     pv,
                     supplied.entries,
                     [setter |-> "set_protocol_version", arg |-> pv])

\* ConfigBuilder::enable_redirect_query
Cb_enable_redirect_query ==
    /\ impl = "lib_rs"
    /\ \E flag \in BOOLEAN :
          SetterCall([config EXCEPT !.enable_redirect_query = flag],
                     protocol_version,
                     supplied.entries,
                     [setter |-> "enable_redirect_query", arg |-> flag])

\* ConfigBuilder::set_config
Cb_set_config ==
    /\ impl = "lib_rs"
    /\ \E key \in ConfigKeys, value \in ConfigValues :
          SetterCall([config EXCEPT !.config_map = insert(config.config_map, key, value)],
                     protocol_version,
                     insert(supplied.entries, key, value),
                     [setter |-> "set_config", arg |-> << key, value >>])

\* ConfigBuilder::set_config_map
Cb_set_config_map ==
    /\ impl = "lib_rs"
    /\ \E map \in ConfigMaps :
          SetterCall([config EXCEPT !.config_map = append(config.config_map, map)],
                     protocol_version,
                     append(supplied.entries, map),
                     [setter |-> "set_config_map", arg |-> map])

\* Session::open (session.rs) on the configured Session
Srs_open_configured ==
    /\ impl = "session_rs" /\ ~crashed /\ call.op = "none"
    /\ \E r \in OpenReplies, st \in StmtReplies :
          Invoked("open", open(State, protocol_version, r, st))
    /\ request' = TSOpenSessionReq_new(protocol_version, config.zone_id, config.user,
                                       config.password, config.config)
    /\ UNCHANGED << constructed, wire, config, supplied >>

\* Session::connect(builder.build()) (lib.rs): the request is built once
\* the TCP connection stands
Lib_connect_configured ==
    /\ impl = "lib_rs" /\ ~crashed /\ ~constructed /\ call.op = "none"
    /\ \E tcp \in BOOLEAN, r \in OpenReplies, st \in StmtReplies :
          LET ret == connect(State, tcp, protocol_version, r, st) IN
          /\ Invoked("connect", ret)
          /\ constructed' = (ret.res = "ok")
          /\ request' = IF tcp
                        THEN TSOpenSessionReq_new(protocol_version, config.time_zone,
                                                  config.user, config.password,
                                                  config.config_map)
                        ELSE request
    /\ UNCHANGED << wire, config, supplied >>

NextConfig ==
    \/ Srs_user
    \/ Srs_password
    \/ Srs_zone_id
    \/ Srs_fetch_size
    \/ Srs_protocol_version
    \/ Srs_config
    \/ Srs_config_map
    \/ Cb_host_port
    \/ Cb_endpoint
    \/ Cb_user
    \/ Cb_password
    \/ Cb_timeout
    \/ Cb_time_zone
    \/ Cb_fetch_size
    \/ Cb_enable_rpc_compaction
    \/ Cb_set_protocol_version
    \/ Cb_enable_redirect_query
    \/ Cb_set_config
    \/ Cb_set_config_map
    \/ Srs_open_configured
    \/ Lib_connect_configured

SpecConfig == InitOps /\ [][NextConfig]_vars

(***************************************************************************)
(* Properties of the configuration (SpecConfig)                            *)
(***************************************************************************)
\* C32: the configuration map in the open-session request holds every key
\* handed to config / config_map / set_config / set_config_map before the
\* opening, each with the value handed over last.
C32_ConfigEntriesAccumulate ==
    request.rpc = "open_session" => request.configuration = supplied.entries

\* the field a setter is named after
FieldOf(setter) ==
    CASE setter \in {"zone_id", "time_zone"} ->
            IF impl = "session_rs" THEN "zone_id" ELSE "time_zone"
      [] setter = "host_port" -> "endpoint"
      [] setter = "enable_rpc_compaction" -> "rpc_compaction"
      [] setter = "set_protocol_version" -> "protocol_version"
      [] setter \in {"config", "config_map", "set_config", "set_config_map"} ->
            IF impl = "session_rs" THEN "config" ELSE "config_map"
      [] OTHER -> setter

\* C36: a call of the setter user, password, zone_id / time_zone,
\* fetch_size, timeout, protocol_version or endpoint returns, leaves every
\* configuration field other than the one it is named after as it was, and
\* leaves the value it was given in that field (the time zone as stored,
\* the endpoint as parsed).
C36_SetterChangesItsField ==
    [][(supplied'.calls = supplied.calls + 1
        /\ supplied'.last.setter \in {"user", "password", "zone_id", "time_zone",
                                      "fetch_size", "timeout", "protocol_version",
                                      "set_protocol_version", "endpoint"})
       => LET f   == FieldOf(supplied'.last.setter)
              arg == supplied'.last.arg
          IN /\ ~crashed'
             /\ \A g \in DOMAIN config \ {f} : config'[g] = config[g]
             /\ f # "protocol_version" => protocol_version' = protocol_version
             /\ f = "protocol_version" => protocol_version' = arg
             /\ f \in {"user", "password", "fetch_size", "timeout", "zone_id"}
                   => config'[f] = arg
             /\ f = "endpoint" => Endpoint_to_string(config'.endpoint) = arg]_vars

(***************************************************************************)
(* The requests in full.  Each method builds its request from the fields   *)
(* of the Session and its arguments; request keeps the request together    *)
(* with the arguments of the call (args).                                  *)
(***************************************************************************)
Statements == {"SELECT * FROM root.sg", "SHOW TIMESERIES"}

\* the answers without a message: a request does not depend on the answer
PlainStatusReplies == {r \in StatusReplies : IsNone(r.status.message)}

PlainExecReplies ==
    {r \in ExecReplies : /\ IsNone(r.status.message)
                         /\ IsNone(r.query_data_set)
                         /\ r.decodable = ~r.err}

\* TSExecuteStatementReq::new as session.rs calls it, with four fields
TSExecuteStatementReq_new4(sid, statement, stmt_id, fetch_size) ==
    [session_id |-> sid, statement |-> statement, statement_id |-> stmt_id,
     fetch_size |-> fetch_size]

\* TSExecuteStatementReq::new as lib.rs calls it
TSExecuteStatementReq_new(sid, statement, stmt_id, fetch_size, timeout, enable_redirect_query, jdbc_query) ==
    [session_id |-> sid, statement |-> statement, statement_id |-> stmt_id,
     fetch_size |-> fetch_size, timeout |-> timeout,
     enable_redirect_query |-> enable_redirect_query, jdbc_query |-> jdbc_query]

\* TSRawDataQueryReq::new
TSRawDataQueryReq_new(sid, paths, fetch_size, start_time, end_time, stmt_id, enable_redirect_query, jdbc_query) ==
    [session_id |-> sid, paths |-> paths, fetch_size |-> fetch_size,
     start_time |-> start_time, end_time |-> end_time, statement_id |-> stmt_id,
     enable_redirect_query |-> enable_redirect_query, jdbc_query |-> jdbc_query]

\* the requests and argument lists that carry the session id and the
\* method's own arguments: TSCloseSessionReq, TSInsertRecordReq,
\* TSSetTimeZoneReq, TSCancelOperationReq, set_storage_group(session_id, ..)
SessionReq_new(sid) == [session_id |-> sid]

\* the request req sent as the RPC name by a call with the arguments args
Sent(name, req, args) ==
    [k \in DOMAIN req \cup {"rpc", "args"} |->
        IF k = "rpc" THEN name ELSE IF k = "args" THEN args ELSE req[k]]

\* the method op returned as ret says, having built the request req if it
\* made a round trip
Requested(op, ret, req) ==
    /\ ~crashed
    /\ Invoked(op, ret)
    /\ request' = IF ret.rpcs = << >> THEN request ELSE req
    /\ UNCHANGED << constructed, wire, config, supplied >>

\* Session::close (session.rs)
Req_srs_close ==
    /\ impl = "session_rs"
    /\ \E r \in PlainStatusReplies :
          Requested("close", close(State, r),
                    Sent("close_session", SessionReq_new(session_id), << >>))

\* Session::query (session.rs)
Req_srs_query ==
    /\ impl = "session_rs"
    /\ \E r \in PlainStatusReplies, text \in Statements :
          Requested("query", query(State, r),
                    Sent("execute_query_statement",
                         TSExecuteStatementReq_new4(session_id, text, statement_id,
                                                    config.fetch_size),
                         [statement |-> text]))

\* Session::set_storage_group (session.rs)
Req_srs_set_storage_group ==
    /\ impl = "session_rs"
    /\ \E r \in PlainStatusReplies :
          Requested("set_storage_group", set_storage_group(State, r),
                    Sent("set_storage_group", SessionReq_new(session_id), << >>))

\* Session::insert_record (session.rs)
Req_srs_insert_record ==
    /\ impl = "session_rs"
    /\ \E r \in PlainStatusReplies :
          Requested("insert_record", insert_record(State, r),
                    Sent("insert_record", SessionReq_new(session_id), << >>))

\* Session::cancel_operation (session.rs)
Req_srs_cancel_operation ==
    /\ impl = "session_rs"
    /\ \E r \in PlainStatusReplies :
          Requested("cancel_operation", cancel_operation(State, r),
                    Sent("cancel_operation", SessionReq_new(session_id), << >>))

\* Session::set_time_zone (session.rs)
Req_srs_set_time_zone ==
    /\ impl = "session_rs"
    /\ \E r \in PlainStatusReplies :
          Requested("set_time_zone", set_time_zone(State, r),
                    Sent("set_time_zone", SessionReq_new(session_id), << >>))

\* Session::close (lib.rs)
Req_lib_close ==
    /\ impl = "lib_rs" /\ constructed
    /\ \E r \in PlainStatusReplies :
          Requested("close", lib_close(State, r),
                    Sent("close_session", SessionReq_new(session_id), << >>))

\* Session::sql (lib.rs), through exec
Req_lib_sql ==
    /\ impl = "lib_rs" /\ constructed
    /\ \E r \in PlainExecReplies, text \in Statements :
          Requested("sql", sql(State, r),
                    Sent("execute_statement",
                         TSExecuteStatementReq_new(session_id, text, statement_id,
                             config.fetch_size, config.timeout,
                             config.enable_redirect_query, FALSE),
                         [statement |-> text]))

\* Session::exec_query (lib.rs)
Req_lib_exec_query ==
    /\ impl = "lib_rs" /\ constructed
    /\ \E r \in PlainExecReplies, text \in Statements :
          Requested("exec_query", exec_query(State, r),
                    Sent("execute_query_statement",
                         TSExecuteStatementReq_new(session_id, text, statement_id,
                             config.fetch_size, config.timeout,
                             config.enable_redirect_query, FALSE),
                         [statement |-> text]))

\* Session::exec_update (lib.rs)
Req_lib_exec_update ==
    /\ impl = "lib_rs" /\ constructed
    /\ \E r \in PlainExecReplies, text \in Statements :
          Requested("exec_update", exec_update(State, r),
                    Sent("execute_update_statement",
                         TSExecuteStatementReq_new(session_id, text, statement_id,
                             config.fetch_size, config.timeout,
                             config.enable_redirect_query, FALSE),
                         [statement |-> text]))

\* Session::exec_raw_data_query (lib.rs)
Req_lib_exec_raw_data_query ==
    /\ impl = "lib_rs" /\ constructed
    /\ \E r \in PlainExecReplies :
          Requested("exec_raw_data_query", exec_raw_data_query(State, r),
                    Sent("execute_raw_data_query",
                         TSRawDataQueryReq_new(session_id, << "root.sg.s1" >>,
                             config.fetch_size, 0, 1, statement_id,
                             config.enable_redirect_query, FALSE),
                         << >>))

\* Session::set_storage_group (lib.rs)
Req_lib_set_storage_group ==
    /\ impl = "lib_rs" /\ constructed
    /\ \E r \in PlainStatusReplies :
          Requested("set_storage_group", lib_set_storage_group(State, r),
                    Sent("set_storage_group", SessionReq_new(session_id), << >>))

\* Session::insert_record (lib.rs)
Req_lib_insert_record ==
    /\ impl = "lib_rs" /\ constructed
    /\ \E r \in PlainStatusReplies :
          Requested("insert_record", lib_insert_record(State, r),
                    Sent("insert_record", SessionReq_new(session_id), << >>))

\* Session::set_time_zone (lib.rs)
Req_lib_set_time_zone ==
    /\ impl = "lib_rs" /\ constructed
    /\ \E r \in PlainStatusReplies :
          Requested("set_time_zone", lib_set_time_zone(State, r),
                    Sent("set_time_zone", SessionReq_new(session_id), << >>))

NextRequests ==
    \/ Srs_fetch_size
    \/ Cb_fetch_size
    \/ Cb_timeout
    \/ Cb_enable_redirect_query
    \/ Srs_open_configured
    \/ Lib_connect_configured
    \/ Req_srs_close
    \/ Req_srs_query
    \/ Req_srs_set_storage_group
    \/ Req_srs_insert_record
    \/ Req_srs_cancel_operation
    \/ Req_srs_set_time_zone
    \/ Req_lib_close
    \/ Req_lib_sql
    \/ Req_lib_exec_query
    \/ Req_lib_exec_update
    \/ Req_lib_exec_raw_data_query
    \/ Req_lib_set_storage_group
    \/ Req_lib_insert_record
    \/ Req_lib_set_time_zone

SpecRequests == InitOps /\ [][NextRequests]_vars

(***************************************************************************)
(* Properties of the requests (SpecRequests)                               *)
(***************************************************************************)
StatementRpcs == {"execute_statement", "execute_query_statement",
                  "execute_update_statement"}

\* C33: on an open session, a statement-execution request carries the
\* session's session_id and statement_id, the SQL text of the call and the
\* configured fetch size, timeout and redirect flag; every other request
\* after the opening carries the session's session_id.
C33_RequestsCarrySessionFields ==
    (request.rpc \notin {"none", "open_session"} /\ ~call.pre.is_close) =>
       /\ request.session_id = call.pre.session_id
       /\ request.rpc \in StatementRpcs =>
            /\ {"statement", "statement_id", "fetch_size", "timeout",
                "enable_redirect_query"} \subseteq DOMAIN request
            /\ request.statement_id = call.pre.statement_id
            /\ request.statement = request.args.statement
            /\ request.fetch_size = config.fetch_size
            /\ request.timeout = config.timeout
            /\ request.enable_redirect_query = config.enable_redirect_query
====
